---- MODULE Spec2Model ----
(***************************************************************************)
(* The swap workflow (prepareSwap -> findPool -> executeSwap) and the      *)
(* transfer workflow (prepareTransfer -> confirmTransfer ->                *)
(* executeTransfer) of the Aptos agent, as LangGraph state graphs.         *)
(*                                                                         *)
(* A node is an operator from (state, config, external answers, resume     *)
(* value) to an outcome: it returns a state update, raises a               *)
(* GraphInterrupt (suspension) or lets an exception escape.  One action    *)
(* per node run applies the node, the channel reducer (y ?? x) and the     *)
(* conditional edge.  External calls (wallet API, indexer, DEX adapters,   *)
(* simulator, chain) answer nondeterministically at every node run.        *)
(*                                                                         *)
(* Numbers: token amounts are integers of the smallest unit; a request     *)
(* amount is carried in tenths (15 is 1.5); gas is carried in octas        *)
(* (1 APT = 10^8 octas); a JavaScript index value is carried in tenths so  *)
(* that 0.5 is representable.                                              *)
(***************************************************************************)
EXTENDS Integers, Sequences, FiniteSets, TLC

----------------------------------------------------------------------------
(* Bounds of the model                                                     *)

NumPools == 8
MaxBalance == 3

----------------------------------------------------------------------------
(* JavaScript values                                                       *)

Undef == [undef |-> TRUE]
NoStr == "<undefined>"

Undefined == [t |-> "undefined", tenths |-> 0]
NaN == [t |-> "nan", tenths |-> 0]
Null == [t |-> "null", tenths |-> 0]
Num(k) == [t |-> "number", tenths |-> 10 * k]
Half == [t |-> "number", tenths |-> 5]
Str(k) == [t |-> "string", tenths |-> 10 * k]

\* typeof v === "number" (NaN is a number)
IsNumber(v) == v.t \in {"number", "nan"}

Min(a, b) == IF a <= b THEN a ELSE b

RECURSIVE Pow10(_)
Pow10(d) == IF d = 0 THEN 1 ELSE 10 * Pow10(d - 1)

\* Math.round(num / den) for an even den > 0: halves round towards +infinity
MathRound(num, den) == (num + den \div 2) \div den

\* Math.ceil(num / den) for den > 0
MathCeil(num, den) == (num + den - 1) \div den

\* Math.floor(num / den) for den > 0
MathFloor(num, den) == num \div den

\* a failed estimate answered with no output at all
noOutput(amountIn) == 0

\* Math.floor(amountIn * 0.9)
fallbackOutput(amountIn) == MathFloor(amountIn * 9, 10)

----------------------------------------------------------------------------
(* Outcomes of a node body or of a helper                                  *)

Ret(st) == [kind |-> "return", st |-> st, msg |-> NoStr, payload |-> Undef]
Throw(m) == [kind |-> "throw", st |-> Undef, msg |-> m, payload |-> Undef]
Interrupt(p) == [kind |-> "interrupt", st |-> Undef, msg |-> NoStr, payload |-> p]

Ok(v) == [ok |-> TRUE, val |-> v, msg |-> NoStr]
Err(m) == [ok |-> FALSE, val |-> Undef, msg |-> m]

----------------------------------------------------------------------------
(* The request of a swap and the configuration of an invocation            *)

AptAlias == "0xa"
AptCoin == "0x1::aptos_coin::AptosCoin"

\* String.prototype.toLowerCase on the addresses of the model
toLowerCase(s) == IF s = AptCoin THEN "0x1::aptos_coin::aptoscoin" ELSE s

\* String.prototype.includes on the (lower-cased) addresses of the model
includes(s, sub) == sub = "" \/ s = sub

TokenPairs ==
  { [faAddressIn |-> "0xa", faAddressOut |-> "0xusdc",
     tokenAddressIn |-> AptCoin, tokenAddressOut |-> "0xusdc"],
    [faAddressIn |-> "0xusdc", faAddressOut |-> "0xa",
     tokenAddressIn |-> "", tokenAddressOut |-> ""],
    [faAddressIn |-> "0xa", faAddressOut |-> "0xdai",
     tokenAddressIn |-> "", tokenAddressOut |-> ""],
    [faAddressIn |-> "0xdai", faAddressOut |-> "0xeth",
     tokenAddressIn |-> "0xd::coin::dai", tokenAddressOut |-> ""] }

\* amountIn in tenths (the tool's schema has already made it a number)
SwapAmounts == {NaN, Num(0), Half, Num(2)}

\* slippage in tenths of a percent; Undefined when the request has none
SixPointSix == [t |-> "number", tenths |-> 66]
Slippages == {Undefined, SixPointSix}

SwapRequest(p, a, s) ==
  [faAddressIn |-> p.faAddressIn, faAddressOut |-> p.faAddressOut,
   tokenAddressIn |-> p.tokenAddressIn, tokenAddressOut |-> p.tokenAddressOut,
   amountIn |-> a, slippage |-> s]

\* 0.4: a positive amount that scales to less than one smallest unit of a
\* token without decimals
Fraction == [t |-> "number", tenths |-> 4]

SwapRequests ==
  {SwapRequest(p, a, Undefined) : p \in TokenPairs, a \in SwapAmounts}
    \cup {SwapRequest(p, Num(2), SixPointSix) : p \in TokenPairs}
    \cup {SwapRequest(p, Fraction, Undefined) :
             p \in {q \in TokenPairs : q.faAddressOut = "0xusdc"}}

\* configurable.interrupt_response / configurable.response
Answer(c, i) == [cancelled |-> c, selectedPoolIndex |-> i]
NoAnswer == Undef

Config(u, i, ir, r) ==
  [userId |-> u, selectedPoolIndex |-> i, interrupt_response |-> ir, response |-> r]

EmptyConfig == Config(1, Undefined, NoAnswer, NoAnswer)

IndexValues ==
  {Num(-1), Num(0), Half, Num(4), Num(5), NaN, Str(1), Null}

\* the configurations a caller invokes or resumes the swap workflow with
SwapConfigs ==
  {EmptyConfig}
    \cup {Config(1, i, NoAnswer, NoAnswer) : i \in IndexValues}
    \cup {Config(1, Undefined, Answer(FALSE, i), NoAnswer) : i \in {Num(0), Num(5), Str(1), Undefined}}
    \cup {Config(1, Undefined, Answer(TRUE, Undefined), NoAnswer),
          Config(1, Num(0), Answer(TRUE, Undefined), NoAnswer),
          Config(1, Undefined, NoAnswer, Answer(TRUE, Undefined))}

----------------------------------------------------------------------------
(* External answers                                                        *)

\* aptosClient.transaction.simulate.simple: it fails, or it reports a gas
\* unit price, the gas used and the maximum gas amount
FailedSim == [ok |-> FALSE, gas_unit_price |-> 0, gas_used |-> 0, max_gas_amount |-> 0]

SmallSim == [ok |-> TRUE, gas_unit_price |-> 1, gas_used |-> 1, max_gas_amount |-> 1]
BigSim == [ok |-> TRUE, gas_unit_price |-> 1000, gas_used |-> 10000, max_gas_amount |-> 100000]

Sims == {FailedSim, SmallSim, BigSim}

\* aptosClient.getAccountCoinsData(...)[0]
TokenDatas ==
  {Undef} \cup
  { [amount |-> a, metadata |-> m] :
      a \in 0..MaxBalance, m \in {Undef, [decimals |-> 0], [decimals |-> 1]} }

GasCapTotal == 5000000
GasCapMax == 10000000
GasDefaultTotal == 500000
GasDefaultMax == 1000000
MaxGasUnits == 50000
DefaultDecimals == 8
DefaultSlippage == 5
TopN == 5

Gas(t, m) == [totalGasCostInAPT |-> t, maxGasCostInAPT |-> m]

getNetworkGasEstimation(sim) ==
  IF sim.ok
    THEN LET estimatedMaxGas == Min(MathCeil(sim.max_gas_amount * 12, 10), MaxGasUnits)
             totalGasCost == sim.gas_unit_price * sim.gas_used
             maxGasCost == sim.gas_unit_price * estimatedMaxGas
         IN  Gas(Min(totalGasCost, GasCapTotal), Min(maxGasCost, GasCapMax))
    ELSE Gas(GasDefaultTotal, GasDefaultMax)

\* a re-estimate that stores the simulated costs as they are
estimateSwapGasUncapped(poolSim, netSim) ==
  IF poolSim.ok
    THEN Gas(poolSim.gas_unit_price * poolSim.gas_used,
             poolSim.gas_unit_price * poolSim.max_gas_amount)
    ELSE getNetworkGasEstimation(netSim)

\* a re-estimate that does not ask for the baseline when the trade's
\* simulation fails
estimateSwapGasWithoutBaseline(poolSim, netSim) ==
  IF poolSim.ok
    THEN Gas(Min(poolSim.gas_unit_price * poolSim.gas_used, GasCapTotal),
             Min(poolSim.gas_unit_price * poolSim.max_gas_amount, GasCapMax))
    ELSE Gas(GasDefaultTotal, GasDefaultMax)

\* poolSim: building and simulating the selected pool's trade transaction
estimateSwapGas(poolSim, netSim) ==
  IF poolSim.ok
    THEN LET totalGasCost == poolSim.gas_unit_price * poolSim.gas_used
             maxGasCost == poolSim.gas_unit_price * poolSim.max_gas_amount
         IN  Gas(Min(totalGasCost, GasCapTotal), Min(maxGasCost, GasCapMax))
    ELSE getNetworkGasEstimation(netSim)

----------------------------------------------------------------------------
(* Swap: the prepare step                                                  *)

SwapTool == [name |-> "swap_tokens", id |-> ""]

SwapState(ph, rq, pt, ps, sp, rs, er, tool) ==
  [phase |-> ph, request |-> rq, preparedTransaction |-> pt, pools |-> ps,
   selectedPool |-> sp, result |-> rs, error |-> er, swapTool |-> tool]

\* validateTokenBalance: tokenData is the row the indexer holds for the
\* account under asset_type = tokenAddressIn, Undef when it holds none
validateTokenBalance(tokenData, tokenAddressIn) ==
  IF tokenData = Undef \/ tokenData.amount = 0
    THEN Err("Input token not found or insufficient balance")
    ELSE Ok([balance |-> tokenData.amount,
             decimals |-> IF tokenData.metadata = Undef THEN DefaultDecimals
                          ELSE tokenData.metadata.decimals,
             tokenData |-> [amount |-> tokenData.amount, metadata |-> tokenData.metadata,
                            asset_type |-> tokenAddressIn]])

validateSwapAmountTruncating(amountIn, tokenBalance) ==
  IF amountIn.t = "nan" \/ amountIn.tenths <= 0
    THEN Err("Invalid swap amount")
    ELSE LET swapAmount == MathFloor(amountIn.tenths * Pow10(tokenBalance.decimals), 10)
         IN  IF swapAmount > tokenBalance.balance
               THEN Err("Insufficient balance")
               ELSE Ok(swapAmount)

validateSwapAmountUnchecked(amountIn, tokenBalance) ==
  IF amountIn.t = "nan" \/ amountIn.tenths <= 0
    THEN Err("Invalid swap amount")
    ELSE Ok(MathRound(amountIn.tenths * Pow10(tokenBalance.decimals), 10))

validateSwapAmount(amountIn, tokenBalance) ==
  IF amountIn.t = "nan" \/ amountIn.tenths <= 0
    THEN Err("Invalid swap amount")
    ELSE LET swapAmount == MathRound(amountIn.tenths * Pow10(tokenBalance.decimals), 10)
         IN  IF swapAmount > tokenBalance.balance
               THEN Err("Insufficient balance")
               ELSE Ok(swapAmount)

\* the address whose balance prepareSwap reads
balanceTokenAddress(request) ==
  LET a == IF request.tokenAddressIn = "" THEN request.faAddressIn
           ELSE request.tokenAddressIn
  IN  IF a = AptAlias THEN AptCoin ELSE a

PrepareEnvs ==
  {[walletOk |-> FALSE, tokenData |-> Undef, sim |-> FailedSim]}
    \cup {[walletOk |-> TRUE, tokenData |-> td, sim |-> s] : td \in TokenDatas, s \in Sims}

prepareSwap(swapState, env) ==
  IF swapState.request = Undef THEN Throw("No swap request found")
  ELSE IF ~env.walletOk THEN Throw("Wallet request failed")
  ELSE LET tokenBalance == validateTokenBalance(env.tokenData,
                                                balanceTokenAddress(swapState.request)) IN
    IF ~tokenBalance.ok THEN Throw(tokenBalance.msg)
    ELSE LET swapAmount == validateSwapAmount(swapState.request.amountIn, tokenBalance.val) IN
      IF ~swapAmount.ok THEN Throw(swapAmount.msg)
      ELSE Ret(SwapState("findPool", swapState.request,
                 [swapAmount |-> swapAmount.val,
                  decimals |-> tokenBalance.val.decimals,
                  tokenData |-> tokenBalance.val.tokenData,
                  gasEstimation |-> getNetworkGasEstimation(env.sim)],
                 <<>>, Undef, Undef, NoStr, swapState.swapTool))

prepareSwapNode(swapState, env) ==
  LET body == prepareSwap(swapState, env) IN
    IF body.kind = "throw"
      THEN Ret(SwapState("error", Undef, Undef, <<>>, Undef, Undef, body.msg, SwapTool))
      ELSE body


----------------------------------------------------------------------------
(* The DEX world: adapters, their pools, their quotes                      *)

Hyperion == "hyperion"
PancakeSwap == "pancakeswap"
Cellana == "cellana"
SupportedDexes == {Hyperion, PancakeSwap, Cellana}

\* the adapter whose pool carries the identifier p: PancakeSwap and Cellana
\* each build one pool for a request, Hyperion lists the pools on chain
DexOf(p) == IF p = 2 THEN PancakeSwap ELSE IF p = 3 THEN Cellana ELSE Hyperion

NewPool(p, a, b) ==
  [id |-> p, dex |-> DexOf(p), token_a |-> a, token_b |-> b,
   estimatedOutput |-> 0, minAmountOut |-> 0]

\* a pool Hyperion's view function lists: the pools trade APT, named by its
\* fungible-asset address 0xa, against USDC, the last one against USDT
Pool(p) == NewPool(p, AptAlias, IF p = NumPools THEN "0xusdt" ELSE "0xusdc")

\* a || b on strings
OrElse(a, b) == IF a # "" THEN a ELSE b

\* HyperionService.findPools: the listed pools whose tokens are the
\* request's, compared as they are written
hyperionFindPools(request) ==
  LET tokenIn == OrElse(request.faAddressIn, request.tokenAddressIn)
      tokenOut == OrElse(request.faAddressOut, request.tokenAddressOut)
  IN  SelectSeq([p \in 1..NumPools |-> Pool(p)],
                LAMBDA pool : /\ DexOf(pool.id) = Hyperion
                              /\ \/ pool.token_a = tokenIn /\ pool.token_b = tokenOut
                                 \/ pool.token_a = tokenOut /\ pool.token_b = tokenIn)

\* PancakeSwapService.findPools: one pool that carries the request's token
\* addresses as they are
pancakeFindPools(request) ==
  IF request.tokenAddressIn = "" \/ request.tokenAddressOut = "" THEN <<>>
  ELSE <<NewPool(2, request.tokenAddressIn, request.tokenAddressOut)>>

\* CellanaService.findPools: one pool that carries the request's addresses,
\* 0xa rewritten to the coin type of APT
cellanaFindPools(request) ==
  LET in0 == OrElse(request.faAddressIn, request.tokenAddressIn)
      out0 == OrElse(request.faAddressOut, request.tokenAddressOut)
      addressIn == IF in0 = AptAlias THEN AptCoin ELSE in0
      addressOut == IF out0 = AptAlias THEN AptCoin ELSE out0
  IN  IF addressIn = "" \/ addressOut = "" THEN <<>>
      ELSE <<NewPool(3, addressIn, addressOut)>>

\* what dexService.findPools of an adapter answers when it does not throw
AdapterPools(dex, request) ==
  IF dex = Hyperion THEN hyperionFindPools(request)
  ELSE IF dex = PancakeSwap THEN pancakeFindPools(request)
  ELSE cellanaFindPools(request)

Markets == {"rising", "ties", "thin", "dead"}

\* what the chain answers when an adapter asks it for a quote: a quote, or
\* a failure.
\* rising: every pool quotes more than the one before; ties: pools of
\* different adapters quote the same; thin: some pools quote nothing;
\* dead: every request fails
Quote(market, pool) ==
  IF market = "rising" THEN Ok(1000 * pool.id)
  ELSE IF market = "ties" THEN Ok(1000 * ((pool.id + 1) \div 2))
  ELSE IF market = "thin" THEN Ok(1000 * (pool.id % 3))
  ELSE Err("estimate failed")

\* HyperionService.estimateAmountOut: the token handed to get_amount_out as
\* the input token, pool.tokenA === "0xa" ? "0xa" : pool.tokenA
hyperionTokenIn(pool) == IF pool.token_a = AptAlias THEN AptAlias ELSE pool.token_a

\* dexService.estimateAmountOut(pool, amountIn): Hyperion and PancakeSwap
\* catch a failed request and answer Math.floor(amountIn * 0.9); Cellana
\* throws it again
estimateAmountOut(market, pool, amountIn) ==
  LET answered == Quote(market, pool)
  IN  IF answered.ok \/ pool.dex = Cellana THEN answered
      ELSE Ok(fallbackOutput(amountIn))

DexCatalogs ==
  { <<Hyperion, PancakeSwap, Cellana>>, <<Cellana, PancakeSwap, Hyperion>>,
    <<"thala", Hyperion>> }

AdapterFailures == { {}, {Hyperion} }

\* the external answers findPoolNode needs after a pool is selected
SelectionEnvs ==
  { [walletOk |-> FALSE, poolSim |-> FailedSim, netSim |-> FailedSim],
    [walletOk |-> TRUE, poolSim |-> BigSim, netSim |-> FailedSim],
    [walletOk |-> TRUE, poolSim |-> FailedSim, netSim |-> SmallSim],
    [walletOk |-> TRUE, poolSim |-> FailedSim, netSim |-> FailedSim] }

\* the external answers findPoolNode needs before a pool is selected: the
\* catalog request fails, or it lists adapters, one of which may fail
DiscoveryEnvs ==
  {[dexesOk |-> FALSE, dexes |-> <<>>, failing |-> {}, market |-> "dead"]}
    \cup { [dexesOk |-> TRUE, dexes |-> cat, failing |-> {}, market |-> mk] :
             cat \in DexCatalogs, mk \in Markets }
    \cup { [dexesOk |-> TRUE, dexes |-> <<Hyperion, PancakeSwap, Cellana>>,
            failing |-> fail, market |-> mk] :
             fail \in AdapterFailures, mk \in Markets }

\* all the external answers of one run of findPoolNode
FindPoolEnv(de, se) ==
  [dexesOk |-> de.dexesOk, dexes |-> de.dexes, failing |-> de.failing, market |-> de.market,
   walletOk |-> se.walletOk, poolSim |-> se.poolSim, netSim |-> se.netSim]

----------------------------------------------------------------------------
(* Swap: pool discovery, filtering, quoting and ranking                    *)

\* the loop over the DEX catalog: allPools
\* a loop that an adapter's failure ends
RECURSIVE collectPoolsUntilFailure(_, _, _, _)
collectPoolsUntilFailure(dexes, i, request, env) ==
  IF i > Len(dexes) THEN <<>>
  ELSE IF dexes[i] \in env.failing THEN <<>>
  ELSE (IF dexes[i] \notin SupportedDexes THEN <<>> ELSE AdapterPools(dexes[i], request))
       \o collectPoolsUntilFailure(dexes, i + 1, request, env)

RECURSIVE collectPools(_, _, _, _)
collectPools(dexes, i, request, env) ==
  IF i > Len(dexes) THEN <<>>
  ELSE (IF dexes[i] \notin SupportedDexes \/ dexes[i] \in env.failing
          THEN <<>> ELSE AdapterPools(dexes[i], request))
       \o collectPools(dexes, i + 1, request, env)

\* [a, b].sort().join(",") === [c, d].sort().join(",")
SamePair(a, b, c, d) == (a = c /\ b = d) \/ (a = d /\ b = c)

\* the request's token address as the filter compares it with a PancakeSwap pool
normalizeTokenAddress(a) ==
  IF toLowerCase(a) = AptAlias THEN toLowerCase(AptCoin) ELSE toLowerCase(a)

\* the request's fungible-asset address as the filter compares it with a
\* pool of another adapter
normalizeFaAddress(a) ==
  IF toLowerCase(a) = toLowerCase(AptCoin) THEN AptAlias ELSE toLowerCase(a)

strictMatch(pool, request) ==
  LET tokenA == toLowerCase(pool.token_a)
      tokenB == toLowerCase(pool.token_b)
  IN  IF pool.dex = PancakeSwap
        THEN SamePair(tokenA, tokenB,
                      normalizeTokenAddress(request.tokenAddressIn),
                      normalizeTokenAddress(request.tokenAddressOut))
        ELSE SamePair(tokenA, tokenB,
                      normalizeFaAddress(request.faAddressIn),
                      normalizeFaAddress(request.faAddressOut))

partialMatch(pool, request) ==
  LET tokenA == toLowerCase(pool.token_a)
      tokenB == toLowerCase(pool.token_b)
      requestTokens ==
        { toLowerCase(request.faAddressIn), toLowerCase(request.faAddressOut),
          toLowerCase(request.tokenAddressIn), toLowerCase(request.tokenAddressOut) } \ {""}
  IN  \E reqToken \in requestTokens :
        \/ includes(tokenA, reqToken) \/ includes(tokenB, reqToken)
        \/ includes(reqToken, tokenA) \/ includes(reqToken, tokenB)

\* a filter that always adds the partial matches
filterPoolsWithPartial(allPools, request) ==
  SelectSeq(allPools, LAMBDA pool : strictMatch(pool, request) \/ partialMatch(pool, request))

filterPools(allPools, request) ==
  LET strict == SelectSeq(allPools, LAMBDA pool : strictMatch(pool, request))
  IN  IF Len(strict) = 0
        THEN SelectSeq(allPools, LAMBDA pool : partialMatch(pool, request))
        ELSE strict

\* slippage of the request in tenths of a percent, 0.5 when it has none
slippageValue(request) ==
  IF request.slippage = Undefined THEN DefaultSlippage ELSE request.slippage.tenths

\* estimatedOutput * (1 - slippageValue / 100) in double arithmetic: the
\* double 1 - 6.6 / 100 is 0.9339999999999999, and its product with 1000,
\* 2000, 4000 or 8000 stays below the integer (933.9999999999999, ...); the
\* products with the other quotes, and every product with 1 - 0.5 / 100,
\* round to the exact value
DoubleFallsShort(estimatedOutput, slippageTenths) ==
  slippageTenths = 66 /\ estimatedOutput \in {1000, 2000, 4000, 8000}

\* Math.floor(estimatedOutput * (1 - slippageValue / 100))
floorOfProduct(estimatedOutput, slippageTenths) ==
  LET exact == estimatedOutput * (1000 - slippageTenths)
  IN  IF exact % 1000 = 0 /\ DoubleFallsShort(estimatedOutput, slippageTenths)
        THEN exact \div 1000 - 1
        ELSE MathFloor(exact, 1000)

\* the re-quote of one pool for the requested amount
estimatePool(pool, swapState, env) ==
  LET estimation == estimateAmountOut(env.market, pool, swapState.preparedTransaction.swapAmount)
  IN  IF estimation.ok
        THEN [pool EXCEPT !.estimatedOutput = estimation.val,
                          !.minAmountOut =
                            floorOfProduct(estimation.val, slippageValue(swapState.request))]
        ELSE [pool EXCEPT !.estimatedOutput = 0, !.minAmountOut = 0]

estimatePools(pools, swapState, env) ==
  [i \in 1..Len(pools) |-> estimatePool(pools[i], swapState, env)]

\* Array.prototype.sort with (a, b) => b.estimatedOutput - a.estimatedOutput.
\* The sort is stable: the place of pools[i] in the result is the number of
\* pools that quote more, or quote the same and stand before it.
placeDescending(pools, i) ==
  1 + Cardinality({ j \in 1..Len(pools) :
        \/ pools[j].estimatedOutput > pools[i].estimatedOutput
        \/ pools[j].estimatedOutput = pools[i].estimatedOutput /\ j < i })

sortDescending(pools) ==
  [k \in 1..Len(pools) |->
     pools[CHOOSE i \in 1..Len(pools) : placeDescending(pools, i) = k]]

\* a ranking that keeps the first five pools it was given, then sorts them
rankFirstFive(pools) ==
  LET positive == SelectSeq(pools, LAMBDA pool : pool.estimatedOutput > 0)
  IN  sortDescending(SubSeq(positive, 1, Min(Len(positive), TopN)))

rankPools(pools) ==
  LET positive == SelectSeq(pools, LAMBDA pool : pool.estimatedOutput > 0)
      ranked == sortDescending(positive)
  IN  SubSeq(ranked, 1, Min(Len(ranked), TopN))

\* sortedPools of findPoolNode for one set of external answers
sortedPools(swapState, env) ==
  rankPools(estimatePools(filterPools(collectPools(env.dexes, 1, swapState.request, env),
                                      swapState.request),
                          swapState, env))


----------------------------------------------------------------------------
(* Swap: the find-pool step                                                *)

\* What interrupt() hands back on resume: the value of Command({resume}).
\* NoResume: the node runs for the first time and interrupt() raises.
NoResume == [shape |-> "none", type |-> NoStr, args |-> Undef]
NullResume == [shape |-> "null", type |-> NoStr, args |-> Undef]
Response(ty, a) == [shape |-> "array", type |-> ty, args |-> a]

\* humanResponses[0].args: absent, an object, its JSON text, or text that
\* JSON.parse rejects
ObjectArgs(i) == [enc |-> "object", selectedPoolIndex |-> i]
JsonArgs(i) == [enc |-> "json", selectedPoolIndex |-> i]
BadJsonArgs == [enc |-> "badjson", selectedPoolIndex |-> Undefined]

ResumeArgs ==
  {Undef, BadJsonArgs}
    \cup {ObjectArgs(i) : i \in (IndexValues \ {Null}) \cup {Undefined}}
    \cup {JsonArgs(i) : i \in {Num(0), Num(5)}}

SwapResumes ==
  {NullResume, Response(NoStr, Undef), Response("ignore", Undef),
   Response("response", ObjectArgs(Num(0)))}
    \cup {Response("accept", a) : a \in ResumeArgs}

\* a cancellation that records no reason
cancelledSwapSilently(swapState, reason) ==
  [swapState EXCEPT !.phase = "error"]

cancelledSwap(swapState, reason) ==
  [swapState EXCEPT !.phase = "error", !.error = reason]

\* the selection an answer object carries, if it is a number
answerIndex(answer, selectedPoolIndex) ==
  IF answer # NoAnswer /\ IsNumber(answer.selectedPoolIndex)
    THEN answer.selectedPoolIndex ELSE selectedPoolIndex

\* a reading of the answer that takes the index as counted from one
responseIndexFromOne(args) ==
  IF args = Undef \/ args.enc = "badjson" THEN Undefined
  ELSE IF args.selectedPoolIndex.t = "number"
    THEN [t |-> "number", tenths |-> args.selectedPoolIndex.tenths - 10]
  ELSE IF IsNumber(args.selectedPoolIndex) THEN args.selectedPoolIndex
  ELSE Undefined

\* the selection read from humanResponses[0].args after an accept
responseIndex(args) ==
  IF args = Undef \/ args.enc = "badjson" THEN Undefined
  ELSE IF IsNumber(args.selectedPoolIndex) THEN args.selectedPoolIndex
  ELSE Undefined

\* the block before the try: it runs only when the state already carries
\* candidate pools, and it can only cancel
earlyCancel(swapState, config) ==
  /\ Len(swapState.pools) > 0
  /\ config.selectedPoolIndex = Undefined
  /\ \/ config.interrupt_response # NoAnswer /\ config.interrupt_response.cancelled
     \/ /\ answerIndex(config.interrupt_response, Undefined) = Undefined
        /\ config.response # NoAnswer /\ config.response.cancelled

\* sortedPools[selectedPoolIndex] after the range check
poolAt(pools, selectedPoolIndex) ==
  IF selectedPoolIndex.t = "number" /\ selectedPoolIndex.tenths % 10 = 0
     /\ selectedPoolIndex.tenths \div 10 + 1 \in 1..Len(pools)
    THEN pools[selectedPoolIndex.tenths \div 10 + 1]
    ELSE Undef

outOfRange(selectedPoolIndex, n) ==
  \/ ~IsNumber(selectedPoolIndex)
  \/ /\ selectedPoolIndex.t = "number"
     /\ (selectedPoolIndex.tenths < 0 \/ selectedPoolIndex.tenths >= 10 * n)

\* a validation that falls back to the best candidate
selectPoolOrFirst(swapState, pools, selectedPoolIndex, env) ==
  IF ~env.walletOk THEN Throw("Wallet not found for gas estimation")
  ELSE Ret([swapState EXCEPT
              !.phase = "executing",
              !.pools = pools,
              !.selectedPool = IF poolAt(pools, selectedPoolIndex) = Undef
                                 THEN pools[1] ELSE poolAt(pools, selectedPoolIndex),
              !.preparedTransaction.gasEstimation = estimateSwapGas(env.poolSim, env.netSim)])

\* a validation that stores the choice and leaves the candidates out
selectPoolWithoutCandidates(swapState, pools, selectedPoolIndex, env) ==
  IF outOfRange(selectedPoolIndex, Len(pools))
    THEN Throw("Invalid pool selection: selectedPoolIndex is out of range")
  ELSE IF poolAt(pools, selectedPoolIndex) = Undef
    THEN Throw("Invalid pool selection: selectedPool is null")
  ELSE IF ~env.walletOk THEN Throw("Wallet not found for gas estimation")
  ELSE Ret([swapState EXCEPT
              !.phase = "executing",
              !.selectedPool = poolAt(pools, selectedPoolIndex),
              !.preparedTransaction.gasEstimation = estimateSwapGas(env.poolSim, env.netSim)])

\* from the validation of the selection to the executing state
selectPool(swapState, pools, selectedPoolIndex, env) ==
  IF outOfRange(selectedPoolIndex, Len(pools))
    THEN Throw("Invalid pool selection: selectedPoolIndex is out of range")
  ELSE IF poolAt(pools, selectedPoolIndex) = Undef
    THEN Throw("Invalid pool selection: selectedPool is null")
  ELSE IF ~env.walletOk THEN Throw("Wallet not found for gas estimation")
  ELSE Ret([swapState EXCEPT
              !.phase = "executing",
              !.pools = pools,
              !.selectedPool = poolAt(pools, selectedPoolIndex),
              !.preparedTransaction.gasEstimation = estimateSwapGas(env.poolSim, env.netSim)])

\* What the try block does with the ranked candidates: validate an index,
\* cancel, suspend for an answer, or fail.
Validate(i) == [do |-> "validate", index |-> i, msg |-> NoStr]
Cancel(m) == [do |-> "cancel", index |-> Undefined, msg |-> m]
Ask == [do |-> "ask", index |-> Undefined, msg |-> NoStr]
Fail(m) == [do |-> "throw", index |-> Undefined, msg |-> m]

\* the selection the configuration carries (state.messages is empty inside
\* the subgraph, so the searches through the messages find nothing)
configSelection(config) ==
  IF config.selectedPoolIndex # Undefined THEN Validate(config.selectedPoolIndex)
  ELSE IF config.interrupt_response # NoAnswer /\ config.interrupt_response.cancelled
    THEN Cancel("User cancelled swap")
  ELSE IF answerIndex(config.interrupt_response, Undefined) # Undefined
    THEN Validate(answerIndex(config.interrupt_response, Undefined))
  ELSE Ask

\* interrupt() and what follows it
resumeSelection(resume) ==
  IF resume.shape = "none" THEN Ask
  ELSE IF resume.shape = "null" THEN Fail("Cannot read properties of null")
  ELSE IF resume.type # "accept" THEN Cancel("User cancelled pool selection")
  ELSE Validate(responseIndex(resume.args))

\* a message text: absent, text that JSON.parse rejects, or the JSON text of
\* an answer object
BadText == [parses |-> FALSE, value |-> NoAnswer]
JsonText(a) == [parses |-> TRUE, value |-> a]

Message(ty, content, additional, calls, callId) ==
  [type |-> ty, content |-> content, additionalContent |-> additional,
   toolCalls |-> calls, tool_call_id |-> callId]

\* state.messages inside the swap graph: swapFlowNode invokes the graph with
\* the swap state only
NoMessages == <<>>

\* message lists for findPoolNode as a function of its state
MessageLogs ==
  { NoMessages,
    <<Message("human", JsonText(Answer(FALSE, Num(4))), Undef, <<>>, NoStr)>>,
    <<Message("human", JsonText(Answer(TRUE, Undefined)), Undef, <<>>, NoStr)>>,
    <<Message("human", BadText, JsonText(Answer(FALSE, Num(4))), <<>>, NoStr)>>,
    <<Message("ai", Undef, Undef,
              <<[name |-> "swap", args |-> JsonText(Answer(FALSE, Num(4)))]>>, NoStr)>>,
    <<Message("tool", JsonText(Answer(FALSE, Num(4))), Undef, <<>>, ""),
      Message("human", BadText, Undef, <<>>, NoStr)>> }

\* JSON.parse inside try/catch: null when the text is absent or rejected
parseText(text) == IF text = Undef \/ ~text.parses THEN NoAnswer ELSE text.value

\* [...messages].reverse().find(test): the index of the last message that
\* passes, 0 when none does
LastWhere(messages, test(_)) ==
  LET hits == {i \in 1..Len(messages) : test(messages[i])}
  IN  IF hits = {} THEN 0 ELSE CHOOSE i \in hits : \A j \in hits : j <= i

\* the answer parsed from the first swap tool call whose arguments parse
RECURSIVE toolCallAnswer(_, _)
toolCallAnswer(calls, i) ==
  IF i > Len(calls) THEN NoAnswer
  ELSE IF calls[i].name = "swap" /\ parseText(calls[i].args) # NoAnswer
    THEN parseText(calls[i].args)
  ELSE toolCallAnswer(calls, i + 1)

\* parsed: content, then additionalContent, then the tool calls
messageAnswer(msg) ==
  IF parseText(msg.content) # NoAnswer THEN parseText(msg.content)
  ELSE IF parseText(msg.additionalContent) # NoAnswer THEN parseText(msg.additionalContent)
  ELSE toolCallAnswer(msg.toolCalls, 1)

answerSelection(parsed) ==
  IF parsed = NoAnswer THEN Ask
  ELSE IF parsed.cancelled THEN Cancel("User cancelled swap")
  ELSE IF IsNumber(parsed.selectedPoolIndex) THEN Validate(parsed.selectedPoolIndex)
  ELSE Ask

\* the search through the messages: the last human message with content,
\* else the last message with tool calls, else the last message with
\* content; then the last tool message that answers the swap tool call
messageSelection(messages, swapToolId) ==
  LET human == LastWhere(messages, LAMBDA m : m.type = "human" /\ m.content # Undef)
      called == LastWhere(messages, LAMBDA m : Len(m.toolCalls) > 0)
      any == LastWhere(messages, LAMBDA m : m.content # Undef)
      last == IF human # 0 THEN human ELSE IF called # 0 THEN called ELSE any
      recent == IF last = 0 THEN Ask ELSE answerSelection(messageAnswer(messages[last]))
      tool == LastWhere(messages, LAMBDA m : m.type = "tool" /\ m.tool_call_id = swapToolId)
      legacy == IF tool = 0 THEN Ask ELSE answerSelection(parseText(messages[tool].content))
  IN  IF recent.do # "ask" THEN recent ELSE legacy

\* a resolution that reads the resume value before anything else
resolveResumeFirst(config, messages, swapToolId, resume) ==
  IF resumeSelection(resume).do # "ask" THEN resumeSelection(resume)
  ELSE IF configSelection(config).do # "ask" THEN configSelection(config)
  ELSE messageSelection(messages, swapToolId)

\* the selection of one run: the configuration, then the messages, then
\* interrupt()
resolveSelectionWith(config, messages, swapToolId, resume) ==
  IF configSelection(config).do # "ask" THEN configSelection(config)
  ELSE IF messageSelection(messages, swapToolId).do # "ask"
    THEN messageSelection(messages, swapToolId)
  ELSE resumeSelection(resume)

resolveSelection(config, resume) ==
  resolveSelectionWith(config, NoMessages, "", resume)

\* the first part of the try block: the candidates ranked from the adapters'
\* answers, or the exception that ends the search
discoverPools(swapState, env) ==
  IF swapState.preparedTransaction = Undef \/ swapState.request = Undef
    THEN Err("No prepared transaction found for pool search")
  ELSE IF ~env.dexesOk THEN Err("DEX catalog request failed")
  ELSE Ok(sortedPools(swapState, env))

\* a try block that goes on to the selection with an empty candidate list
findPoolBodyWithoutEmptyCheck(swapState, config, found, env, resume) ==
  IF ~found.ok THEN Throw(found.msg)
  ELSE LET pools == found.val
           selection == resolveSelection(config, resume)
       IN
    IF selection.do = "validate"
      THEN selectPool(swapState, pools, selection.index, env)
    ELSE IF selection.do = "cancel" THEN Ret(cancelledSwap(swapState, selection.msg))
    ELSE IF selection.do = "throw" THEN Throw(selection.msg)
    ELSE Interrupt([action |-> "Select Pool", pools |-> pools])

\* the body of the try block, given what its first part found
findPoolBody(swapState, config, found, env, resume) ==
  IF ~found.ok THEN Throw(found.msg)
  ELSE LET pools == found.val
           selection == resolveSelection(config, resume)
       IN
    IF Len(pools) = 0
      THEN Ret(cancelledSwap(swapState, "No pools with valid estimated output found"))
    ELSE IF selection.do = "validate"
      THEN selectPool(swapState, pools, selection.index, env)
    ELSE IF selection.do = "cancel" THEN Ret(cancelledSwap(swapState, selection.msg))
    ELSE IF selection.do = "throw" THEN Throw(selection.msg)
    ELSE Interrupt([action |-> "Select Pool", pools |-> pools])

\* a catch block that handles the suspension like any other exception
catchEverything(swapState, body) ==
  IF body.kind # "return"
    THEN Ret([swapState EXCEPT !.phase = "error", !.error = body.msg])
    ELSE body

\* catch (error): a GraphInterrupt is thrown again, anything else becomes
\* the error state
catchFindPool(swapState, body) ==
  IF body.kind = "throw"
    THEN Ret([swapState EXCEPT !.phase = "error", !.error = body.msg])
    ELSE body

\* findPoolNode with the outcome of its discovery part passed in
findPoolFrom(swapState, config, found, env, resume) ==
  IF earlyCancel(swapState, config)
    THEN Ret(cancelledSwap(swapState, "User cancelled swap"))
    ELSE catchFindPool(swapState, findPoolBody(swapState, config, found, env, resume))

findPoolNode(swapState, config, env, resume) ==
  findPoolFrom(swapState, config, discoverPools(swapState, env), env, resume)


----------------------------------------------------------------------------
(* Swap: the execute step                                                  *)

\* market: what the selected pool's adapter quotes when createSwapTransaction
\* asks it again
ExecEnv(wok, td, cok, sok, fok, mk) ==
  [walletOk |-> wok, tokenData |-> td, createOk |-> cok, submitOk |-> sok, waitOk |-> fok,
   market |-> mk]

ExecMarkets == {"rising", "ties"}

ExecTokenDatas == {Undef} \cup {[amount |-> a, metadata |-> Undef] : a \in 0..MaxBalance}

ExecEnvs ==
  {ExecEnv(FALSE, Undef, FALSE, FALSE, FALSE, "dead")}
    \cup { ExecEnv(TRUE, td, FALSE, FALSE, FALSE, "dead") : td \in ExecTokenDatas }
    \cup { ExecEnv(TRUE, td, TRUE, o[1], o[2], mk) :
             td \in ExecTokenDatas,
             o \in {<<FALSE, FALSE>>, <<TRUE, FALSE>>, <<TRUE, TRUE>>},
             mk \in ExecMarkets }

\* the asset whose balance executeSwapNode reads again
swapAssetType(swapState) ==
  IF swapState.selectedPool.dex = PancakeSwap
    THEN swapState.request.tokenAddressIn ELSE swapState.request.faAddressIn

\* a balance re-validation that keeps no reserve for gas
swapBalanceFailureWithoutReserve(swapState, env) ==
  LET balance == IF env.tokenData = Undef THEN 0 ELSE env.tokenData.amount
  IN  IF swapState.preparedTransaction.swapAmount > balance
        THEN "Insufficient token balance" ELSE NoStr

\* the failure of the balance re-validation, NoStr when it passes
swapBalanceFailure(swapState, env) ==
  LET assetType == swapAssetType(swapState)
      balance == IF env.tokenData = Undef THEN 0 ELSE env.tokenData.amount
      swapAmount == swapState.preparedTransaction.swapAmount
      gasReserveInOctas == swapState.preparedTransaction.gasEstimation.maxGasCostInAPT
  IN  IF assetType = AptAlias \/ assetType = AptCoin
        THEN IF swapAmount > balance - gasReserveInOctas
               THEN "Insufficient balance for swap" ELSE NoStr
        ELSE IF swapAmount > balance THEN "Insufficient token balance" ELSE NoStr

\* CellanaService.validateSlippage on a number, in tenths of a percent:
\* slippage < 0.1 || slippage > 50 throws
validateSlippage(slippageTenths) == slippageTenths >= 1 /\ slippageTenths <= 500

\* dexService.createSwapTransaction up to the payload: Cellana validates the
\* slippage, Hyperion and PancakeSwap go straight to the estimate; the
\* minimum is Math.floor(estimatedOutput * (1 - slippage / 100))
createSwapTransaction(pool, amountIn, slippageTenths, market) ==
  LET estimation == estimateAmountOut(market, pool, amountIn)
  IN  IF pool.dex = Cellana /\ ~validateSlippage(slippageTenths)
        THEN Err("Invalid slippage value")
      ELSE IF ~estimation.ok THEN Err("estimate failed")
      ELSE Ok([amountIn |-> amountIn, slippage |-> slippageTenths,
               minAmountOut |-> floorOfProduct(estimation.val, slippageTenths)])

\* createSwapTransaction of the selected pool's adapter: it asks for a quote
\* again and derives the minimum output from it
SwapTransaction(swapState, env) ==
  [kind |-> "swap", pool |-> swapState.selectedPool.id,
   amountIn |-> swapState.preparedTransaction.swapAmount,
   slippage |-> slippageValue(swapState.request),
   minAmountOut |->
     floorOfProduct(estimateAmountOut(env.market, swapState.selectedPool,
                                      swapState.preparedTransaction.swapAmount).val,
                    slippageValue(swapState.request))]

\* the try block of executeSwapNode: the exception it ends with (NoStr when
\* it ends normally) and the transactions it handed to signAndSubmitTransaction
executeSwapBody(swapState, env) ==
  IF \/ swapState.preparedTransaction = Undef
     \/ swapState.selectedPool = Undef
     \/ swapState.request = Undef
    THEN [failure |-> "No prepared transaction or pool for execution", sent |-> <<>>]
  ELSE IF ~env.walletOk
    THEN [failure |-> "Wallet not found or private key not available", sent |-> <<>>]
  ELSE IF swapBalanceFailure(swapState, env) # NoStr
    THEN [failure |-> swapBalanceFailure(swapState, env), sent |-> <<>>]
  ELSE IF \/ ~env.createOk
          \/ ~createSwapTransaction(swapState.selectedPool,
                                    swapState.preparedTransaction.swapAmount,
                                    slippageValue(swapState.request), env.market).ok
    THEN [failure |-> "createSwapTransaction failed", sent |-> <<>>]
  ELSE IF ~env.submitOk
    THEN [failure |-> "signAndSubmitTransaction failed", sent |-> <<SwapTransaction(swapState, env)>>]
  ELSE IF ~env.waitOk
    THEN [failure |-> "waitForTransaction failed", sent |-> <<SwapTransaction(swapState, env)>>]
  ELSE [failure |-> NoStr, sent |-> <<SwapTransaction(swapState, env)>>]

Result(ok, er, m) == [success |-> ok, error |-> er, message |-> m]

\* an execute step that goes back to the pool search when it fails
executeSwapOrSearchAgain(swapState, env) ==
  LET body == executeSwapBody(swapState, env) IN
    IF body.failure = NoStr
      THEN Ret([swapState EXCEPT
                  !.phase = "completed",
                  !.result = Result(TRUE, NoStr, "Swap completed successfully")])
      ELSE Ret([swapState EXCEPT !.phase = "findPool", !.error = body.failure])

\* an execute step that stays in its phase when it fails, to be run again
executeSwapOrRetry(swapState, env) ==
  LET body == executeSwapBody(swapState, env) IN
    IF body.failure = NoStr
      THEN Ret([swapState EXCEPT
                  !.phase = "completed",
                  !.result = Result(TRUE, NoStr, "Swap completed successfully")])
      ELSE Ret([swapState EXCEPT !.error = body.failure])

executeSwapNode(swapState, env) ==
  LET body == executeSwapBody(swapState, env) IN
    IF body.failure = NoStr
      THEN Ret([swapState EXCEPT
                  !.phase = "completed",
                  !.result = Result(TRUE, NoStr, "Swap completed successfully")])
      ELSE Ret([swapState EXCEPT
                  !.phase = "error",
                  !.error = body.failure,
                  !.result = Result(FALSE, body.failure, "Swap failed")])

\* a routing that sends a failed swap back to its first step
routeSwapFlowRetryingErrors(swapState) ==
  IF swapState = Undef THEN "END"
  ELSE IF swapState.phase = "preparing" THEN "prepareSwap"
  ELSE IF swapState.phase = "findPool" THEN "findPool"
  ELSE IF swapState.phase = "executing" THEN "executeSwap"
  ELSE IF swapState.phase = "completed" THEN "callModel"
  ELSE IF swapState.phase = "error" THEN "prepareSwap"
  ELSE "END"

\* routeSwapFlow; "callModel" is no node of the swap graph, so that after it
\* the graph has nothing left to run
routeSwapFlow(swapState) ==
  IF swapState = Undef THEN "END"
  ELSE IF swapState.phase = "preparing" THEN "prepareSwap"
  ELSE IF swapState.phase = "findPool" THEN "findPool"
  ELSE IF swapState.phase = "executing" THEN "executeSwap"
  ELSE IF swapState.phase = "completed" THEN "callModel"
  ELSE "END"


----------------------------------------------------------------------------
(* Transfer: request, state and the prepare step                           *)

\* request.amount is a string: empty, not a number ("abc"), or a decimal
EmptyString == [t |-> "empty", tenths |-> 0]
TransferAmounts == {EmptyString, NaN, Half, Num(2)}

TransferRequests ==
  { [toAddress |-> to, amount |-> a, faAddress |-> fa, tokenAddress |-> ""] :
      to \in {"", "0xbob"}, a \in TransferAmounts, fa \in {"", "0xusdc"} }

TransferState(ph, rq, pt, rs, er) ==
  [phase |-> ph, request |-> rq, preparedTransaction |-> pt, result |-> rs, error |-> er]

\* parseFloat(amount)
parseFloat(amount) == IF amount.t = "number" THEN amount ELSE NaN

transferAssetType(request) ==
  IF request.faAddress # "" THEN request.faAddress
  ELSE IF request.tokenAddress # "" THEN request.tokenAddress
  ELSE AptCoin

\* getTokenDecimals: the registry's decimals, 0 for an unknown asset
getTokenDecimals(assetType) == IF assetType = AptCoin THEN DefaultDecimals ELSE 0

TransferTokenDatas ==
  {Undef} \cup
  { [amount |-> a, metadata |-> m] : a \in 0..MaxBalance, m \in {Undef, [decimals |-> 0]} }

TransferPrepareEnvs ==
  {[walletOk |-> FALSE, tokenData |-> Undef, buildOk |-> FALSE, sim |-> FailedSim]}
    \cup {[walletOk |-> TRUE, tokenData |-> td, buildOk |-> FALSE, sim |-> FailedSim] :
            td \in TransferTokenDatas}
    \cup {[walletOk |-> TRUE, tokenData |-> td, buildOk |-> TRUE, sim |-> s] :
            td \in TransferTokenDatas, s \in Sims}

\* amountNumber * 10 ** decimals, in tenths
scaleAmount(amountNumber, decimals) ==
  IF amountNumber.t = "nan" THEN NaN
  ELSE [t |-> "number", tenths |-> amountNumber.tenths * Pow10(decimals)]

\* the try block of prepareTransferNode
prepareTransferBody(transferState, userId, env) ==
  LET request == transferState.request
      assetType == transferAssetType(request)
  IN
  IF userId = 0 THEN Throw("User not authenticated - missing user identity in context")
  ELSE IF request.toAddress = "" THEN Throw("Invalid toAddress provided")
  ELSE IF request.amount.t = "empty" THEN Throw("Invalid amount provided")
  ELSE IF ~env.walletOk THEN Throw("Wallet not found or private key not available")
  ELSE IF env.tokenData = Undef \/ env.tokenData.amount = 0
    THEN Throw("Token not found or insufficient balance")
  ELSE LET amountNumber == parseFloat(request.amount)
           decimals == IF env.tokenData.metadata = Undef THEN getTokenDecimals(assetType)
                       ELSE env.tokenData.metadata.decimals
           balance == env.tokenData.amount
       IN
    IF amountNumber.t = "number" /\ amountNumber.tenths > 10 * balance
      THEN Throw("Insufficient balance")
    ELSE IF ~env.buildOk THEN Throw("building the transaction failed")
    ELSE IF ~env.sim.ok THEN Throw("simulating the transaction failed")
    ELSE Ret([transferState EXCEPT
                !.phase = "confirming",
                !.preparedTransaction =
                   [transferAmount |-> scaleAmount(amountNumber, decimals),
                    decimals |-> decimals,
                    tokenData |-> env.tokenData,
                    gasEstimation |->
                      Gas(env.sim.gas_unit_price * env.sim.gas_used,
                          env.sim.gas_unit_price * env.sim.max_gas_amount),
                    assetType |-> assetType]])

prepareTransferNode(transferState, userId, env) ==
  IF transferState = Undef THEN Throw("No transfer state found")
  ELSE LET body == prepareTransferBody(transferState, userId, env) IN
    IF body.kind = "throw"
      THEN Ret([transferState EXCEPT
                  !.phase = "error",
                  !.error = body.msg,
                  !.result = Result(FALSE, body.msg, "Transfer preparation failed")])
      ELSE body

----------------------------------------------------------------------------
(* Transfer: the confirm step                                              *)

TransferResumes ==
  {NullResume, Response(NoStr, Undef), Response("ignore", Undef),
   Response("response", Undef), Response("accept", Undef)}

\* a confirm step that takes the transfer as accepted without asking
confirmWithoutAsking(transferState, resume) ==
  IF transferState.preparedTransaction = Undef \/ transferState.request = Undef
    THEN Throw("No prepared transaction found for confirmation")
    ELSE Ret([transferState EXCEPT !.phase = "executing"])

\* the try block of confirmTransferNode
confirmTransferBody(transferState, resume) ==
  IF transferState.preparedTransaction = Undef \/ transferState.request = Undef
    THEN Throw("No prepared transaction found for confirmation")
  ELSE IF resume.shape = "none"
    THEN Interrupt([action |-> "Transfer Confirmation",
                    request |-> transferState.request,
                    tokenInfo |-> [type |-> transferState.preparedTransaction.assetType],
                    gasEstimate |-> transferState.preparedTransaction.gasEstimation])
  ELSE IF resume.shape = "null"
    THEN Throw("Cannot read properties of null")
  ELSE IF resume.type # "accept"
    THEN Ret([transferState EXCEPT
                !.phase = "error",
                !.result = Result(FALSE, "User cancelled the transfer",
                                  "Transfer cancelled by user")])
  ELSE Ret([transferState EXCEPT !.phase = "executing"])

\* a catch block that throws every exception again
rethrowEverything(transferState, body) == body

\* catch (error): a GraphInterrupt is thrown again, anything else becomes
\* the error state
catchConfirmTransfer(transferState, body) ==
  IF body.kind = "throw"
    THEN Ret([transferState EXCEPT !.phase = "error", !.error = body.msg])
    ELSE body

confirmTransferNode(transferState, resume) ==
  catchConfirmTransfer(transferState, confirmTransferBody(transferState, resume))

----------------------------------------------------------------------------
(* Transfer: the execute step                                              *)

TransferExecEnvs ==
  { [walletOk |-> o[1], buildOk |-> o[2], submitOk |-> o[3], waitOk |-> o[4]] :
      o \in {<<FALSE, FALSE, FALSE, FALSE>>, <<TRUE, FALSE, FALSE, FALSE>>,
             <<TRUE, TRUE, FALSE, FALSE>>, <<TRUE, TRUE, TRUE, FALSE>>,
             <<TRUE, TRUE, TRUE, TRUE>>} }

\* a transaction derived again from the request, in the request's units
TransferTransactionFromRequest(transferState) ==
  [kind |-> "transfer",
   recipient |-> transferState.request.toAddress,
   amount |-> parseFloat(transferState.request.amount),
   assetType |-> transferAssetType(transferState.request)]

TransferTransaction(transferState) ==
  [kind |-> "transfer",
   recipient |-> transferState.request.toAddress,
   amount |-> transferState.preparedTransaction.transferAmount,
   assetType |-> transferState.preparedTransaction.assetType]

\* the try block of executeTransferNode: the exception it ends with (NoStr
\* when it ends normally) and the transactions it handed to
\* signAndSubmitTransaction
executeTransferBody(transferState, env) ==
  IF transferState.preparedTransaction = Undef
    THEN [failure |-> "No prepared transaction found for execution", sent |-> <<>>]
  ELSE IF transferState.request = Undef \/ transferState.request.toAddress = ""
    THEN [failure |-> "To address is required", sent |-> <<>>]
  ELSE IF ~env.walletOk
    THEN [failure |-> "Wallet not found or private key not available", sent |-> <<>>]
  ELSE IF ~env.buildOk
    THEN [failure |-> "building the transaction failed", sent |-> <<>>]
  ELSE IF ~env.submitOk
    THEN [failure |-> "signAndSubmitTransaction failed",
          sent |-> <<TransferTransaction(transferState)>>]
  ELSE IF ~env.waitOk
    THEN [failure |-> "waitForTransaction failed",
          sent |-> <<TransferTransaction(transferState)>>]
  ELSE [failure |-> NoStr, sent |-> <<TransferTransaction(transferState)>>]

\* an execute step that asks for the confirmation again when it fails
executeTransferOrAskAgain(transferState, env) ==
  LET body == executeTransferBody(transferState, env) IN
    IF body.failure = NoStr
      THEN Ret([transferState EXCEPT
                  !.phase = "completed",
                  !.result = Result(TRUE, NoStr, "transfer completed successfully")])
      ELSE Ret([transferState EXCEPT !.phase = "confirming", !.error = body.failure])

executeTransferNode(transferState, env) ==
  LET body == executeTransferBody(transferState, env) IN
    IF body.failure = NoStr
      THEN Ret([transferState EXCEPT
                  !.phase = "completed",
                  !.result = Result(TRUE, NoStr, "transfer completed successfully")])
      ELSE Ret([transferState EXCEPT !.phase = "error", !.error = body.failure])

routeTransferFlow(transferState) ==
  IF transferState = Undef THEN "END"
  ELSE IF transferState.phase = "preparing" THEN "prepareTransfer"
  ELSE IF transferState.phase = "confirming" THEN "confirmTransfer"
  ELSE IF transferState.phase = "executing" THEN "executeTransfer"
  ELSE "END"


----------------------------------------------------------------------------
(* PancakeSwap: the pair cache, the reserves, the routes and the quotes    *)

\* PAIR_CACHE_DURATION, 30 minutes, counted in ticks of 10 minutes
PAIR_CACHE_DURATION == 3

\* the last tick of Date.now(), and the number of calls a run issues
MaxClock == 3
MaxCalls == 2

\* the coin types PancakeSwap is asked about; Rank orders them as the
\* comparison of JavaScript strings does
Rank(token) ==
  IF token = AptCoin THEN 1
  ELSE IF token = AptAlias THEN 2
  ELSE IF token = "0xdai" THEN 3
  ELSE IF token = "0xeth" THEN 4
  ELSE 5

\* getTokenList(): the tokens the adapter knows, in list order
TokenList == <<AptCoin, "0xeth", "0xdai", "0xusdc">>

\* `${resourceAccount}_${sortedX}_${sortedY}`, and the same with the prefix
\* exists_ for the existence entries
getPairCacheKey(tokenA, tokenB) ==
  IF Rank(tokenA) < Rank(tokenB)
    THEN [exists |-> FALSE, x |-> tokenA, y |-> tokenB]
    ELSE [exists |-> FALSE, x |-> tokenB, y |-> tokenA]

existsKey(tokenA, tokenB) == [getPairCacheKey(tokenA, tokenB) EXCEPT !.exists = TRUE]

\* pairCache is a function from the keys it holds to {data, timestamp}
EmptyCache == [key \in {} |-> Undef]

\* cleanExpiredCache
cleanExpiredCache(pairCache, now) ==
  [key \in {k \in DOMAIN pairCache : now - pairCache[k].timestamp < PAIR_CACHE_DURATION}
     |-> pairCache[key]]

\* a read that trusts the sweep to have removed what expired
getCachedPairDataTrustingSweep(pairCache, cacheKey, now, sweep) ==
  LET swept == IF sweep THEN cleanExpiredCache(pairCache, now) ELSE pairCache
  IN  [cache |-> swept,
       data |-> IF cacheKey \in DOMAIN swept THEN swept[cacheKey].data ELSE Null]

\* getCachedPairData: sweep is Math.random() < 0.1; the result is the cache
\* after the call and the data returned, Null for a miss
getCachedPairData(pairCache, cacheKey, now, sweep) ==
  LET swept == IF sweep THEN cleanExpiredCache(pairCache, now) ELSE pairCache
  IN  [cache |-> swept,
       data |-> IF /\ cacheKey \in DOMAIN swept
                   /\ now - swept[cacheKey].timestamp < PAIR_CACHE_DURATION
                  THEN swept[cacheKey].data ELSE Null]

setCachedPairData(pairCache, cacheKey, data, now) ==
  [key \in DOMAIN pairCache \cup {cacheKey} |->
     IF key = cacheKey THEN [data |-> data, timestamp |-> now] ELSE pairCache[key]]

\* tokenA === "0xa" ? "0x1::aptos_coin::AptosCoin" : tokenA
canonicalToken(token) == IF token = AptAlias THEN AptCoin ELSE token

\* the TokenPairReserve resources on chain: the pairs that exist, each with
\* the reserve it holds of either token
PairOf(tokenA, tokenB) == {canonicalToken(tokenA), canonicalToken(tokenB)}

ChainReserve(chain, token) == IF token \in chain.drained THEN 0 ELSE 100 * Rank(token)

Chains ==
  { [pairs |-> {PairOf(AptCoin, "0xusdc"), PairOf(AptCoin, "0xdai"), PairOf("0xdai", "0xusdc")},
     drained |-> {"0xusdc"}] }
  \cup
  { [pairs |-> ps, drained |-> {}] :
      ps \in { {PairOf(AptCoin, "0xusdc")},
               {PairOf(AptCoin, "0xusdc"), PairOf(AptCoin, "0xdai"), PairOf("0xdai", "0xusdc")},
               {PairOf(AptCoin, "0xdai"), PairOf("0xdai", "0xusdc")},
               {PairOf(AptCoin, "0xeth"), PairOf("0xeth", "0xusdc"),
                PairOf(AptCoin, "0xdai"), PairOf("0xdai", "0xusdc")},
               {PairOf(AptCoin, "0xeth")} } }

Reserves(in, out) == [reserve_in |-> in, reserve_out |-> out]

\* the part of getReserves after a cache miss: the fetch answers (status 200
\* for a pair that exists, 404 otherwise) or fails; reserve_x is the reserve
\* of the token that sorts first
fetchReserves(chain, tokenA, tokenB, fetchOk) ==
  LET canonicalTokenA == canonicalToken(tokenA)
      canonicalTokenB == canonicalToken(tokenB)
      sortedX == IF Rank(canonicalTokenA) < Rank(canonicalTokenB)
                   THEN canonicalTokenA ELSE canonicalTokenB
      sortedY == IF Rank(canonicalTokenA) < Rank(canonicalTokenB)
                   THEN canonicalTokenB ELSE canonicalTokenA
      reserve_x == ChainReserve(chain, sortedX)
      reserve_y == ChainReserve(chain, sortedY)
      isReversed == Rank(canonicalTokenA) > Rank(canonicalTokenB)
  IN  IF ~fetchOk THEN Err("fetch failed")
      ELSE IF PairOf(tokenA, tokenB) \notin chain.pairs THEN Err("TokenPairReserve not found")
      ELSE Ok(IF isReversed THEN Reserves(reserve_y, reserve_x)
              ELSE Reserves(reserve_x, reserve_y))

\* getAmountOut: Math.floor(amount_in * 0.9975 * reserve_out /
\* (reserve_in + amount_in * 0.9975))
getAmountOut(amount_in, reserve_in, reserve_out) ==
  IF amount_in <= 0 THEN Err("ERROR_INSUFFICIENT_INPUT_AMOUNT")
  ELSE IF reserve_in <= 0 \/ reserve_out <= 0 THEN Err("ERROR_INSUFFICIENT_LIQUIDITY")
  ELSE Ok(MathFloor(amount_in * 9975 * reserve_out, reserve_in * 10000 + amount_in * 9975))

\* checkPairExists: the cache after the call and the answer; a fetch that
\* fails answers false and writes nothing
checkPairExists(pairCache, chain, tokenA, tokenB, now, sweep, fetchOk) ==
  LET cacheKey == existsKey(tokenA, tokenB)
      read == getCachedPairData(pairCache, cacheKey, now, sweep)
      exists == PairOf(tokenA, tokenB) \in chain.pairs
  IN  IF read.data # Null THEN [cache |-> read.cache, exists |-> read.data.val]
      ELSE IF ~fetchOk THEN [cache |-> read.cache, exists |-> FALSE]
      ELSE [cache |-> setCachedPairData(read.cache, cacheKey, [val |-> exists], now),
            exists |-> exists]

Route(type, path) == [type |-> type, path |-> path]
NoRoute == Route("none", <<>>)

\* potentialIntermediates
potentialIntermediates(tokenIn, tokenOut) ==
  SelectSeq(TokenList, LAMBDA addr : addr # tokenIn /\ addr # tokenOut)

\* the result of a route search: the cache after it, the route, and the
\* pairs it asked about with the answers it got, in the order of asking
Searched(cache, route, answers) == [cache |-> cache, route |-> route, answers |-> answers]

\* an intermediate search that takes the last intermediate that serves
RECURSIVE findLastIntermediateRoute(_, _, _, _, _, _, _, _, _)
findLastIntermediateRoute(pairCache, chain, tokenIn, tokenOut, mids, k, now, sweep, fetchOk) ==
  IF k > Len(mids) THEN Searched(pairCache, NoRoute, <<>>)
  ELSE LET leg1 == checkPairExists(pairCache, chain, tokenIn, mids[k], now, sweep, fetchOk)
           leg2 == checkPairExists(leg1.cache, chain, mids[k], tokenOut, now, sweep, fetchOk)
           asked == << <<tokenIn, mids[k], leg1.exists>>, <<mids[k], tokenOut, leg2.exists>> >>
           rest == findLastIntermediateRoute(leg2.cache, chain, tokenIn, tokenOut, mids, k + 1,
                                             now, sweep, fetchOk)
       IN  IF rest.route # NoRoute \/ ~(leg1.exists /\ leg2.exists)
             THEN Searched(rest.cache, rest.route, asked \o rest.answers)
             ELSE Searched(rest.cache, Route("doublehop", <<tokenIn, mids[k], tokenOut>>),
                           asked \o rest.answers)

\* findIntermediateRoute from the k-th potential intermediate on
RECURSIVE findIntermediateRoute(_, _, _, _, _, _, _, _, _)
findIntermediateRoute(pairCache, chain, tokenIn, tokenOut, mids, k, now, sweep, fetchOk) ==
  IF k > Len(mids) THEN Searched(pairCache, NoRoute, <<>>)
  ELSE LET leg1 == checkPairExists(pairCache, chain, tokenIn, mids[k], now, sweep, fetchOk)
           leg2 == checkPairExists(leg1.cache, chain, mids[k], tokenOut, now, sweep, fetchOk)
           asked == << <<tokenIn, mids[k], leg1.exists>>, <<mids[k], tokenOut, leg2.exists>> >>
       IN  IF leg1.exists /\ leg2.exists
             THEN Searched(leg2.cache, Route("doublehop", <<tokenIn, mids[k], tokenOut>>), asked)
             ELSE LET rest == findIntermediateRoute(leg2.cache, chain, tokenIn, tokenOut, mids,
                                                    k + 1, now, sweep, fetchOk)
                  IN  Searched(rest.cache, rest.route, asked \o rest.answers)

\* getRoutingPath: tryDirectSwap, then findIntermediateRoute
getRoutingPath(pairCache, chain, tokenIn, tokenOut, now, sweep, fetchOk) ==
  LET direct == checkPairExists(pairCache, chain, tokenIn, tokenOut, now, sweep, fetchOk)
      asked == << <<tokenIn, tokenOut, direct.exists>> >>
  IN  IF direct.exists
        THEN Searched(direct.cache, Route("direct", <<tokenIn, tokenOut>>), asked)
        ELSE LET rest == findIntermediateRoute(direct.cache, chain, tokenIn, tokenOut,
                                               potentialIntermediates(tokenIn, tokenOut), 1,
                                               now, sweep, fetchOk)
             IN  Searched(rest.cache, rest.route, asked \o rest.answers)

----------------------------------------------------------------------------
(* The state machine                                                       *)

VARIABLES
  wf,             \* which workflow this run is: "swap" or "transfer"
  pc,             \* the node the graph runs next, "suspended", "END", "callModel" or "crashed"
  swapState,      \* the swapState channel (Undef in a transfer run)
  transferState,  \* the transferState channel (Undef in a swap run)
  userId,         \* langgraph_auth_user_id of the run's configuration, 0 when absent
  pending,        \* the payload of the pending interrupt, Undef when none
  submitted,      \* the transactions handed to signAndSubmitTransaction so far
  asked,          \* the run has suspended for a human answer
  answer,         \* the kind of answer the run was resumed with, "none" before
  raised,         \* what the body of the last node run raised: kind and message
  picked,         \* the index findPoolNode validated and the number of candidates then
  pairCache,      \* PancakeSwap's module-level pairCache, shared by every call
  now,            \* Date.now(), in ticks of 10 minutes
  chain,          \* the TokenPairReserve resources on chain
  calls,          \* the PancakeSwap call each concurrent caller is in
  issued,         \* the number of PancakeSwap calls started so far
  finished        \* the last PancakeSwap call that returned, with its value

flowVars ==
  <<wf, pc, swapState, transferState, userId, pending, submitted, asked, answer, raised, picked>>

cacheVars ==
  <<pairCache, now, chain, calls, issued, finished>>

vars == <<flowVars, cacheVars>>

Raised(k, m) == [kind |-> k, msg |-> m]
NothingRaised == Raised("none", NoStr)
RaisedBy(body) ==
  IF body.kind = "return" THEN NothingRaised ELSE Raised(body.kind, body.msg)

Picked(i, n) == [index |-> i, of |-> n]
NotPicked == [index |-> Undef, of |-> 0]

\* the state the swap tool starts the workflow with
InitialSwapState(request) ==
  SwapState("preparing", request, Undef, <<>>, Undef, Undef, NoStr, Undef)

\* the state the transfer tool starts the workflow with
InitialTransferState(request) ==
  TransferState("preparing", request, Undef, Undef, NoStr)

\* the concurrent callers of the PancakeSwap service
Workers == {1, 2}

Idle == [op |-> "idle"]
NoCall == [op |-> "none"]

\* the PancakeSwap service at module load: an empty cache and no call
CacheAtLoad ==
  /\ pairCache = EmptyCache
  /\ now = 0
  /\ calls = [w \in Workers |-> Idle]
  /\ issued = 0
  /\ finished = NoCall

Init ==
  /\ CacheAtLoad
  /\ chain = [pairs |-> {}, drained |-> {}]
  /\ wf \in {"swap", "transfer"}
  /\ IF wf = "swap"
       THEN /\ pc = "prepareSwap"
            /\ \E request \in SwapRequests : swapState = InitialSwapState(request)
            /\ transferState = Undef
            /\ userId = 1
       ELSE /\ pc = "prepareTransfer"
            /\ swapState = Undef
            /\ \E request \in TransferRequests : transferState = InitialTransferState(request)
            /\ userId \in {0, 1}
  /\ pending = Undef
  /\ submitted = <<>>
  /\ asked = FALSE
  /\ answer = "none"
  /\ raised = NothingRaised
  /\ picked = NotPicked

\* the channel update (reducer y ?? x) and the conditional edge after a node
GraphStep(state, out, route) ==
  [state |-> IF out.kind = "return" THEN out.st ELSE state,
   pending |-> IF out.kind = "interrupt" THEN out.payload ELSE Undef,
   pc |-> IF out.kind = "return" THEN route
          ELSE IF out.kind = "interrupt" THEN "suspended" ELSE "crashed"]

SwapStep(out) ==
  LET step == GraphStep(swapState, out,
                        IF out.kind = "return" THEN routeSwapFlow(out.st) ELSE "END")
  IN  /\ swapState' = step.state
      /\ pending' = step.pending
      /\ pc' = step.pc
      /\ asked' = (asked \/ out.kind = "interrupt")

TransferStep(out) ==
  LET step == GraphStep(transferState, out,
                        IF out.kind = "return" THEN routeTransferFlow(out.st) ELSE "END")
  IN  /\ transferState' = step.state
      /\ pending' = step.pending
      /\ pc' = step.pc
      /\ asked' = (asked \/ out.kind = "interrupt")

PrepareSwap ==
  /\ wf = "swap" /\ pc = "prepareSwap"
  /\ \E env \in PrepareEnvs :
       /\ SwapStep(prepareSwapNode(swapState, env))
       /\ raised' = RaisedBy(prepareSwap(swapState, env))
  /\ UNCHANGED cacheVars
  /\ UNCHANGED <<picked, wf, transferState, userId, submitted, answer>>

\* what the part of findPoolNode inside the try raised
raisedInFindPool(st, cfg, found, env, resume) ==
  IF earlyCancel(st, cfg) THEN NothingRaised
  ELSE RaisedBy(findPoolBody(st, cfg, found, env, resume))

\* the index that reaches the validation in this run of findPoolNode
pickedInFindPool(st, cfg, found, resume) ==
  IF /\ ~earlyCancel(st, cfg)
     /\ found.ok /\ Len(found.val) > 0
     /\ resolveSelection(cfg, resume).do = "validate"
    THEN Picked(resolveSelection(cfg, resume).index, Len(found.val))
    ELSE NotPicked

\* the wallet answers and no simulation succeeds
QuietSelection == [walletOk |-> TRUE, poolSim |-> FailedSim, netSim |-> FailedSim]

\* the kind of answer a resume carries
answerKind(resume, cfg) ==
  IF \/ cfg.interrupt_response # NoAnswer /\ cfg.interrupt_response.cancelled
     \/ cfg.response # NoAnswer /\ cfg.response.cancelled
     \/ resume.shape = "array" /\ resume.type # "accept"
    THEN "cancel"
  ELSE IF resume.shape = "array" THEN "accept"
  ELSE "null"

\* One run of findPoolNode for one of the given pairs of a resume value and
\* a configuration.  The adapters answer first; the wallet and the simulator
\* are asked only once a pool is selected, so their answers are drawn only
\* for the runs that get that far.
FindPoolRun(choices) ==
  \E de \in DiscoveryEnvs :
  \E found \in {discoverPools(swapState, de)} :
  \E choice \in choices :
    LET resume == choice[1]
        cfg == choice[2]
    IN
    \E quiet \in {findPoolFrom(swapState, cfg, found, FindPoolEnv(de, QuietSelection), resume)} :
    \E se \in (IF quiet.kind = "return" /\ quiet.st.phase = "executing"
                 THEN SelectionEnvs ELSE {QuietSelection}) :
    \E out \in {findPoolFrom(swapState, cfg, found, FindPoolEnv(de, se), resume)} :
      /\ SwapStep(out)
      /\ raised' = raisedInFindPool(swapState, cfg, found, FindPoolEnv(de, se), resume)
      /\ answer' = IF resume = NoResume THEN answer ELSE answerKind(resume, cfg)
      /\ picked' = pickedInFindPool(swapState, cfg, found, resume)

FindPool ==
  /\ wf = "swap" /\ pc = "findPool"
  /\ FindPoolRun({<<NoResume, cfg>> : cfg \in SwapConfigs})
  /\ UNCHANGED cacheVars
  /\ UNCHANGED <<wf, transferState, userId, submitted>>

\* Command({resume}) with the configuration of the resuming invocation: the
\* usual one carries nothing else, others carry an explicit index or a
\* structured cancellation
SwapResumeChoices ==
  {<<resume, EmptyConfig>> : resume \in SwapResumes}
    \cup { <<resume, cfg>> :
             resume \in {Response("accept", ObjectArgs(Num(0))), Response("ignore", Undef)},
             cfg \in {Config(1, Num(0), NoAnswer, NoAnswer),
                      Config(1, Undefined, Answer(TRUE, Undefined), NoAnswer),
                      Config(1, Num(0), Answer(TRUE, Undefined), NoAnswer)} }

\* the interrupted node runs again from its first line
ResumeSwap ==
  /\ wf = "swap" /\ pc = "suspended"
  /\ FindPoolRun(SwapResumeChoices)
  /\ UNCHANGED cacheVars
  /\ UNCHANGED <<wf, transferState, userId, submitted>>

ExecuteSwap ==
  /\ wf = "swap" /\ pc = "executeSwap"
  /\ \E env \in ExecEnvs :
       LET body == executeSwapBody(swapState, env) IN
         /\ SwapStep(executeSwapNode(swapState, env))
         /\ submitted' = submitted \o body.sent
         /\ raised' = IF body.failure = NoStr THEN NothingRaised
                      ELSE Raised("throw", body.failure)
  /\ UNCHANGED cacheVars
  /\ UNCHANGED <<picked, wf, transferState, userId, answer>>

PrepareTransfer ==
  /\ wf = "transfer" /\ pc = "prepareTransfer"
  /\ \E env \in TransferPrepareEnvs :
       /\ TransferStep(prepareTransferNode(transferState, userId, env))
       /\ raised' = IF transferState = Undef THEN Raised("throw", "No transfer state found")
                    ELSE RaisedBy(prepareTransferBody(transferState, userId, env))
  /\ UNCHANGED cacheVars
  /\ UNCHANGED <<picked, wf, swapState, userId, submitted, answer>>

ConfirmTransfer ==
  /\ wf = "transfer" /\ pc = "confirmTransfer"
  /\ TransferStep(confirmTransferNode(transferState, NoResume))
  /\ raised' = RaisedBy(confirmTransferBody(transferState, NoResume))
  /\ UNCHANGED cacheVars
  /\ UNCHANGED <<picked, wf, swapState, userId, submitted, answer>>

ResumeTransfer ==
  /\ wf = "transfer" /\ pc = "suspended"
  /\ \E resume \in TransferResumes :
       /\ TransferStep(confirmTransferNode(transferState, resume))
       /\ raised' = RaisedBy(confirmTransferBody(transferState, resume))
       /\ answer' = answerKind(resume, EmptyConfig)
  /\ UNCHANGED cacheVars
  /\ UNCHANGED <<picked, wf, swapState, userId, submitted>>

ExecuteTransfer ==
  /\ wf = "transfer" /\ pc = "executeTransfer"
  /\ \E env \in TransferExecEnvs :
       LET body == executeTransferBody(transferState, env) IN
         /\ TransferStep(executeTransferNode(transferState, env))
         /\ submitted' = submitted \o body.sent
         /\ raised' = IF body.failure = NoStr THEN NothingRaised
                      ELSE Raised("throw", body.failure)
  /\ UNCHANGED cacheVars
  /\ UNCHANGED <<picked, wf, swapState, userId, answer>>

Next ==
  \/ PrepareSwap \/ FindPool \/ ResumeSwap \/ ExecuteSwap
  \/ PrepareTransfer \/ ConfirmTransfer \/ ResumeTransfer \/ ExecuteTransfer

Spec == Init /\ [][Next]_vars

\* the places pc can be at
Places ==
  {"prepareSwap", "findPool", "executeSwap", "callModel",
   "prepareTransfer", "confirmTransfer", "executeTransfer",
   "suspended", "END", "crashed"}

\* the node that is due runs and hands control on; the only steps of Next
\* from a state where node is due are those of the node's own action
Runs(node) == pc = node /\ pc' \in Places

\* The graph runs the node it has routed to, and every external call a node
\* makes returns or fails, so that a node that is due does run.  A resume
\* is the user's move and may never come.
FairSpec ==
  /\ Spec
  /\ WF_pc(Runs("prepareSwap")) /\ WF_pc(Runs("findPool"))
  /\ WF_pc(Runs("executeSwap"))
  /\ WF_pc(Runs("prepareTransfer")) /\ WF_pc(Runs("confirmTransfer"))
  /\ WF_pc(Runs("executeTransfer"))

----------------------------------------------------------------------------
(* The PancakeSwap service under concurrent callers                        *)

\* a pool as findPools builds it: the route type and the route path
RoutedPool(routeType, routePath) == [routeType |-> routeType, routePath |-> routePath]

EstimatePools ==
  { RoutedPool("direct", <<AptCoin, "0xusdc">>),
    RoutedPool("direct", <<"0xusdc", AptCoin>>),
    RoutedPool("doublehop", <<AptCoin, "0xdai", "0xusdc">>),
    RoutedPool("triplehop", <<AptCoin, "0xeth", "0xdai", "0xusdc">>) }

\* the calls of estimateAmountOut: a pool and the amount in
EstimateCalls ==
  {<<pool, 10>> : pool \in EstimatePools}
    \cup {<<RoutedPool("direct", <<AptCoin, "0xusdc">>), 0>>}

RouteRequests == { <<AptCoin, "0xusdc">> }

CacheInit ==
  /\ CacheAtLoad
  /\ chain \in Chains
  /\ wf = "pancakeswap" /\ pc = "END"
  /\ swapState = Undef /\ transferState = Undef /\ userId = 1
  /\ pending = Undef /\ submitted = <<>> /\ asked = FALSE /\ answer = "none"
  /\ raised = NothingRaised /\ picked = NotPicked

\* estimateAmountOut returns: the value, or the fallback when it caught
Estimated(call, estimatedOutput, caught) ==
  [op |-> "estimate", pool |-> call.pool, amountIn |-> call.amountIn,
   estimatedOutput |-> estimatedOutput, caught |-> caught]

\* the legs of a routed pool: the pairs whose reserves the estimate reads
legsOf(pool) ==
  IF pool.routeType = "doublehop" THEN 2
  ELSE IF pool.routeType = "direct" \/ pool.routeType = "" THEN 1
  ELSE 0

\* estimateAmountOut after getReserves answered for the leg it is in: the
\* call goes on with the next leg or returns
AfterReserves(w, reserves) ==
  LET call == calls[w]
      out == getAmountOut(call.amount, reserves.reserve_in, reserves.reserve_out)
  IN  IF ~out.ok
        THEN /\ calls' = [calls EXCEPT ![w] = Idle]
             /\ finished' = Estimated(call, fallbackOutput(call.amountIn), TRUE)
      ELSE IF call.leg < legsOf(call.pool)
        THEN /\ calls' = [calls EXCEPT ![w] = [call EXCEPT !.leg = call.leg + 1,
                                                           !.amount = out.val,
                                                           !.fetching = FALSE]]
             /\ UNCHANGED finished
      ELSE /\ calls' = [calls EXCEPT ![w] = Idle]
           /\ finished' = Estimated(call, out.val, FALSE)

\* estimateAmountOut is called; a pool of an unknown route type is answered
\* at once with the fallback
StartEstimate(w) ==
  /\ calls[w] = Idle /\ issued < MaxCalls
  /\ \E estimateCall \in EstimateCalls :
       LET pool == estimateCall[1]
           amountIn == estimateCall[2]
           call == [op |-> "estimate", pool |-> pool, amountIn |-> amountIn,
                    leg |-> 1, amount |-> amountIn, fetching |-> FALSE]
       IN  IF legsOf(pool) = 0
             THEN /\ finished' = Estimated(call, fallbackOutput(amountIn), FALSE)
                  /\ UNCHANGED calls
             ELSE /\ calls' = [calls EXCEPT ![w] = call]
                  /\ UNCHANGED finished
  /\ issued' = issued + 1
  /\ UNCHANGED <<flowVars, pairCache, now, chain>>

\* getReserves up to its fetch: the cache is read, and a hit is returned
ReadReserves(w) ==
  /\ calls[w].op = "estimate" /\ ~calls[w].fetching
  /\ \E sweep \in BOOLEAN :
       LET call == calls[w]
           tokenA == call.pool.routePath[call.leg]
           tokenB == call.pool.routePath[call.leg + 1]
           read == getCachedPairData(pairCache, getPairCacheKey(tokenA, tokenB), now, sweep)
       IN  /\ pairCache' = read.cache
           /\ IF read.data # Null
                THEN AfterReserves(w, read.data)
                ELSE /\ calls' = [calls EXCEPT ![w].fetching = TRUE]
                     /\ UNCHANGED finished
  /\ UNCHANGED <<flowVars, now, chain, issued>>

\* getReserves after its fetch: the answer is stored and returned, a
\* failure is thrown into the catch of estimateAmountOut
FetchedReserves(w) ==
  /\ calls[w].op = "estimate" /\ calls[w].fetching
  /\ \E fetchOk \in BOOLEAN :
       LET call == calls[w]
           tokenA == call.pool.routePath[call.leg]
           tokenB == call.pool.routePath[call.leg + 1]
           fetched == fetchReserves(chain, tokenA, tokenB, fetchOk)
       IN  IF fetched.ok
             THEN /\ pairCache' = setCachedPairData(pairCache, getPairCacheKey(tokenA, tokenB),
                                                    fetched.val, now)
                  /\ AfterReserves(w, fetched.val)
             ELSE /\ calls' = [calls EXCEPT ![w] = Idle]
                  /\ finished' = Estimated(call, fallbackOutput(call.amountIn), TRUE)
                  /\ UNCHANGED pairCache
  /\ UNCHANGED <<flowVars, now, chain, issued>>

\* getRoutingPath, called and answered.  Its existence checks are taken in
\* one step: between them another caller can only add existence entries
\* that agree with the chain or sweep entries that would read as a miss.
\* fetchOk says whether the node answers the fetches of this call.
FindRoute(w) ==
  /\ calls[w] = Idle /\ issued < MaxCalls
  /\ \E request \in RouteRequests, sweep \in BOOLEAN, fetchOk \in BOOLEAN :
       LET found == getRoutingPath(pairCache, chain, request[1], request[2], now, sweep, fetchOk)
       IN  /\ pairCache' = found.cache
           /\ finished' = [op |-> "route", tokenIn |-> request[1], tokenOut |-> request[2],
                           route |-> found.route, answers |-> found.answers,
                           fetchOk |-> fetchOk]
  /\ issued' = issued + 1
  /\ UNCHANGED <<flowVars, now, chain, calls>>

\* ten minutes pass
Tick ==
  /\ now < MaxClock
  /\ now' = now + 1
  /\ UNCHANGED <<flowVars, pairCache, chain, calls, issued, finished>>

CacheNext ==
  \/ Tick
  \/ \E w \in Workers : StartEstimate(w)
  \/ \E w \in Workers : ReadReserves(w)
  \/ \E w \in Workers : FetchedReserves(w)
  \/ \E w \in Workers : FindRoute(w)

CacheSpec == CacheInit /\ [][CacheNext]_vars


----------------------------------------------------------------------------
(* Properties                                                              *)

Terminal == {"completed", "error"}

\* C1: in a transfer run a transaction is handed to submission, and the
\* phase executing (and completed after it) is entered, only after the
\* confirm step suspended and the run was resumed with an answer of type
\* accept.
TransferSubmitsOnlyAfterAccept ==
  wf = "transfer" /\ (submitted # <<>> \/ transferState.phase \in {"executing", "completed"})
    => asked /\ answer = "accept"

\* a transfer that was confirmed with accept and submitted its transaction
TransferAcceptedAndSubmitted ==
  /\ wf = "transfer" /\ transferState.phase = "completed"
  /\ Len(submitted) = 1 /\ asked /\ answer = "accept"

SwapPhaseOrder ==
  {<<"preparing", "findPool">>, <<"findPool", "executing">>, <<"executing", "completed">>}
    \cup {<<phase, "error">> : phase \in {"preparing", "findPool", "executing"}}

\* C2: every change of the swap phase is one step forward along preparing,
\* findPool, executing, completed, or a move from a non-terminal phase to
\* error; completed and error are never left.
SwapPhaseMovesForward ==
  [][wf = "swap" /\ swapState'.phase # swapState.phase
       => <<swapState.phase, swapState'.phase>> \in SwapPhaseOrder]_vars

\* a swap that went through every phase, the suspension included
SwapWentThroughEveryPhase ==
  wf = "swap" /\ swapState.phase = "completed" /\ asked /\ Len(submitted) = 1

TransferPhaseOrder ==
  {<<"preparing", "confirming">>, <<"confirming", "executing">>, <<"executing", "completed">>}
    \cup {<<phase, "error">> : phase \in {"preparing", "confirming", "executing"}}

\* C3: every change of the transfer phase is one step forward along
\* preparing, confirming, executing, completed, or a move from a
\* non-terminal phase to error; completed and error are never left.
TransferPhaseMovesForward ==
  [][wf = "transfer" /\ transferState'.phase # transferState.phase
       => <<transferState.phase, transferState'.phase>> \in TransferPhaseOrder]_vars

\* a transfer that failed in its last step, after every earlier phase
TransferFailedWhileExecuting ==
  wf = "transfer" /\ transferState.phase = "error" /\ Len(submitted) = 1 /\ asked

\* one of the two fields is set and the other is not
ExactlyOneSet(state) == (state.result # Undef) # (state.error # NoStr)

\* C4: in a terminal phase of either workflow exactly one of the fields
\* result and error is set.
ExactlyOneOfResultAndError ==
  /\ wf = "swap" /\ swapState.phase \in Terminal => ExactlyOneSet(swapState)
  /\ wf = "transfer" /\ transferState.phase \in Terminal => ExactlyOneSet(transferState)

\* the index is no number, is negative, or is not below the number of
\* candidates
InvalidSelection(p) ==
  ~(p.index.t = "number" /\ 0 <= p.index.tenths /\ p.index.tenths < 10 * p.of)

\* C5: when the selection that reaches the validation is out of range or is
\* no number, the swap ends in phase error, with no selected pool stored and
\* no transaction submitted.
InvalidSelectionEndsInError ==
  wf = "swap" /\ picked # NotPicked /\ InvalidSelection(picked)
    => /\ swapState.phase = "error" /\ pc = "END"
       /\ swapState.selectedPool = Undef
       /\ submitted = <<>>

\* the run was resumed with accept and index 5 when there were 5 candidates
AcceptedIndexPastTheLast ==
  /\ wf = "swap" /\ asked /\ answer = "accept"
  /\ picked = Picked(Num(5), 5) /\ swapState.phase = "error"

CancelReasons ==
  {"User cancelled swap", "User cancelled pool selection", "User cancelled the transfer"}

\* the reason a state in phase error carries
reasonOf(state) ==
  IF state.error # NoStr THEN state.error
  ELSE IF state.result # Undef THEN state.result.error
  ELSE NoStr

\* C6: a run resumed with a cancellation (an answer of another type than
\* accept, or an answer object with cancelled = true) is in phase error with
\* a user-cancelled reason and has submitted no transaction.
CancellationEndsInCancelledError ==
  answer = "cancel" =>
    LET state == IF wf = "swap" THEN swapState ELSE transferState
    IN  /\ state.phase = "error"
        /\ reasonOf(state) \in CancelReasons
        /\ submitted = <<>>

\* C7: when the body of the find-pool step or of the confirm step raises a
\* suspension, the step ends suspended with the payload of the suspension
\* pending, and the workflow state is as it was before the step.
SuspensionPropagates ==
  [][raised'.kind = "interrupt"
       => /\ pc' = "suspended" /\ pending' # Undef
          /\ swapState' = swapState /\ transferState' = transferState]_vars

\* the find-pool step has suspended with the candidates to choose from
SwapSuspendedForSelection ==
  /\ wf = "swap" /\ pc = "suspended" /\ raised.kind = "interrupt"
  /\ swapState.phase = "findPool" /\ Len(pending.pools) >= 2

\* C8: an exception raised in a step leaves the step as a state in phase
\* error that carries the message of the exception; the step does not throw.
ExceptionsBecomeErrorState ==
  raised.kind = "throw" =>
    LET state == IF wf = "swap" THEN swapState ELSE transferState
    IN  pc = "END" /\ state.phase = "error" /\ state.error = raised.msg

\* an exception was raised in the confirm step of a resumed transfer
ConfirmStepThrew ==
  /\ wf = "transfer" /\ asked /\ raised.kind = "throw"
  /\ transferState.preparedTransaction # Undef /\ submitted = <<>>

\* the valid indices for a list of candidates
ValidIndices(pools) == {Num(i) : i \in 0..(Len(pools) - 1)}

\* the ways to supply index i up front
UpFront(i) ==
  {Config(1, i, NoAnswer, NoAnswer), Config(1, Undefined, Answer(FALSE, i), NoAnswer)}

\* findPoolNode suspends, and resumed with index i it ends as the run that
\* had i up front, here and after the execute step
RoundTripHolds(found, env, i) ==
  LET first == findPoolFrom(swapState, EmptyConfig, found, env, NoResume) IN
    /\ first.kind = "interrupt"
    /\ \A args \in {ObjectArgs(i), JsonArgs(i)} : \A cfg \in UpFront(i) :
         LET second == findPoolFrom(swapState, EmptyConfig, found, env,
                                    Response("accept", args))
             single == findPoolFrom(swapState, cfg, found, env, NoResume)
         IN  /\ second.kind = "return"
             /\ single = second
             /\ second.st.phase = "executing" =>
                  \A ee \in ExecEnvs :
                    /\ executeSwapNode(single.st, ee) = executeSwapNode(second.st, ee)
                    /\ executeSwapBody(single.st, ee) = executeSwapBody(second.st, ee)

\* C9: for the same swap state, the same external answers and a valid index
\* i, the find-pool step run without an answer suspends, and run again with
\* the answer i it reaches the phase, the selected pool and the result of a
\* single run that had i up front.
SuspensionRoundTrip ==
  wf = "swap" /\ pc = "findPool" =>
    \A de \in DiscoveryEnvs : \A found \in {discoverPools(swapState, de)} :
      found.ok =>
        \A se \in SelectionEnvs : \A i \in ValidIndices(found.val) :
          RoundTripHolds(found, FindPoolEnv(de, se), i)

\* a run that suspended, was resumed with the last of five candidates and
\* selected it
ResumedWithLastPool ==
  /\ wf = "swap" /\ asked /\ answer = "accept"
  /\ picked = Picked(Num(4), 5)
  /\ swapState.phase = "executing" /\ swapState.selectedPool = swapState.pools[5]

\* C10: a run hands at most one transaction to submission, and once it has,
\* the run is over: in phase completed, or in phase error when submitting or
\* waiting for finality failed.
AtMostOneSubmission ==
  /\ Len(submitted) <= 1
  /\ submitted # <<>> =>
       LET state == IF wf = "swap" THEN swapState ELSE transferState
       IN  /\ pc \in {"END", "callModel"}
           /\ state.phase = (IF raised.kind = "throw" THEN "error" ELSE "completed")

\* a swap whose submitted transaction did not reach finality
SwapFailedAfterSubmission ==
  /\ wf = "swap" /\ Len(submitted) = 1 /\ swapState.phase = "error"
  /\ raised = Raised("throw", "waitForTransaction failed")

\* the pools that survived filtering, re-quoted
survivingPools(state, env) ==
  estimatePools(filterPools(collectPools(env.dexes, 1, state.request, env),
                            state.request),
                state, env)

\* the members of a list of pools
PoolSet(pools) == {pools[k] : k \in 1..Len(pools)}

\* ranked holds no pool without a positive quote, is in non-increasing
\* order of the quote, has at most 5 entries, and they are the best of the
\* survivors: as many as the survivors with a positive quote allow, each a
\* survivor, none twice, none quoting less than a survivor left out
RankedTopFive(ranked, survivors) ==
  LET positive == {pool \in PoolSet(survivors) : pool.estimatedOutput > 0} IN
    /\ \A k \in 1..Len(ranked) : ranked[k].estimatedOutput > 0
    /\ \A k \in 1..(Len(ranked) - 1) :
         ranked[k].estimatedOutput >= ranked[k + 1].estimatedOutput
    /\ Len(ranked) <= 5
    /\ Len(ranked) = Min(5, Cardinality(positive))
    /\ PoolSet(ranked) \subseteq positive
    /\ Cardinality(PoolSet(ranked)) = Len(ranked)
    /\ \A out \in positive \ PoolSet(ranked) : \A k \in 1..Len(ranked) :
         ranked[k].estimatedOutput >= out.estimatedOutput

\* C11: the candidate list of the find-pool step holds no pool quoting 0 or
\* less, is sorted in non-increasing order of estimated output, has at most
\* 5 entries, and these are the highest-quoting pools among the pools that
\* survived filtering.
CandidatesAreTopFive ==
  wf = "swap" /\ pc = "findPool" =>
    \A de \in {d \in DiscoveryEnvs : d.dexesOk} :
      LET env == FindPoolEnv(de, QuietSelection) IN
        RankedTopFive(sortedPools(swapState, env),
                      survivingPools(swapState, env))

\* five candidates are presented, two of them with equal quotes, and a
\* sixth survivor with a positive quote was left out
FiveCandidatesPresented ==
  /\ wf = "swap" /\ pc = "suspended" /\ Len(pending.pools) = 5
  /\ pending.pools[1].estimatedOutput = pending.pools[2].estimatedOutput
  /\ \E de \in {d \in DiscoveryEnvs : d.dexesOk} :
       LET env == FindPoolEnv(de, QuietSelection) IN
         /\ sortedPools(swapState, env) = pending.pools
         /\ Len(survivingPools(swapState, env)) > 5

\* two catalogs list the same adapters, in whatever order
SameAdapters(a, b) ==
  Len(a) = Len(b) /\ {a[k] : k \in 1..Len(a)} = {b[k] : k \in 1..Len(b)}

\* C12: for a fixed request and fixed adapter answers, every order in which
\* the catalog lists the adapters yields the same ranked candidate list,
\* element for element, also when pools quote the same.
RankingIgnoresAdapterOrder ==
  wf = "swap" /\ pc = "findPool" =>
    \A d1, d2 \in {d \in DiscoveryEnvs : d.dexesOk} :
      SameAdapters(d1.dexes, d2.dexes) /\ d1.failing = d2.failing /\ d1.market = d2.market
        => sortedPools(swapState, FindPoolEnv(d1, QuietSelection))
             = sortedPools(swapState, FindPoolEnv(d2, QuietSelection))

\* no adapter returned a pool for the pair, or no surviving pool has a
\* positive quote
NoLiquidity(state, env) ==
  \A pool \in PoolSet(survivingPools(state, env)) : pool.estimatedOutput <= 0

\* C13: when no adapter returns a pool for the pair, or every surviving pool
\* quotes zero, the find-pool step returns phase error with the no-pools
\* message; it neither suspends nor raises an exception, whatever the
\* configuration and whether or not the run is a resumed one.
NoPoolsEndsInError ==
  wf = "swap" /\ pc \in {"findPool", "suspended"} =>
    \A de \in {d \in DiscoveryEnvs : d.dexesOk} :
      NoLiquidity(swapState, FindPoolEnv(de, QuietSelection)) =>
        \A found \in {discoverPools(swapState, de)} :
        \A choice \in {<<NoResume, cfg>> : cfg \in SwapConfigs} \cup SwapResumeChoices :
        \A se \in SelectionEnvs :
          LET env == FindPoolEnv(de, se)
              out == findPoolFrom(swapState, choice[2], found, env, choice[1])
          IN  /\ out.kind = "return"
              /\ out.st.phase = "error"
              /\ out.st.error = "No pools with valid estimated output found"
              /\ out.st.selectedPool = Undef
              /\ raisedInFindPool(swapState, choice[2], found, env, choice[1]) = NothingRaised

\* the find-pool step found pools for the pair, none of them with a quote,
\* and ended the run without asking
EndedWithNoPools ==
  /\ wf = "swap" /\ pc = "END" /\ ~asked /\ raised = NothingRaised
  /\ swapState.phase = "error"
  /\ swapState.error = "No pools with valid estimated output found"
  /\ swapState.request.faAddressOut = "0xusdc"

----------------------------------------------------------------------------
(* The prepared amount                                                     *)

PositiveAmount(amountIn) == amountIn.t = "number" /\ amountIn.tenths > 0

\* the decimals the prepare step scales by for a balance entry
decimalsOf(tokenData) ==
  IF tokenData.metadata = Undef THEN DefaultDecimals ELSE tokenData.metadata.decimals

\* n is amountIn * 10^decimals rounded to the nearest integer, halves up
IsRounded(n, amountIn, decimals) ==
  LET scaled == amountIn.tenths * Pow10(decimals)
  IN  10 * n - 5 <= scaled /\ scaled < 10 * n + 5

\* round(amountIn * 10^decimals) <= balance
ScaledWithin(amountIn, decimals, balance) ==
  amountIn.tenths * Pow10(decimals) < 10 * balance + 5

PreparedExactly(request, env) ==
  LET out == prepareSwapNode(InitialSwapState(request), env)
  IN  /\ out.kind = "return"
      /\ out.st.phase = "findPool"
      /\ IsRounded(out.st.preparedTransaction.swapAmount, request.amountIn,
                   decimalsOf(env.tokenData))

Readable(env) == env.walletOk /\ env.tokenData # Undef

RejectedByPrepare(request, env) ==
  LET out == prepareSwapNode(InitialSwapState(request), env)
  IN  /\ out.kind = "return"
      /\ out.st.phase = "error"
      /\ routeSwapFlow(out.st) = "END"

----------------------------------------------------------------------------
(* The prepared transfer amount                                            *)

\* the transfer request reaches the balance comparison of prepare
ReachesBalanceCheck(request, user, env) ==
  /\ user # 0 /\ request.toAddress # "" /\ request.amount.t = "number"
  /\ env.walletOk /\ env.tokenData # Undef /\ env.tokenData.amount > 0

transferDecimals(request, tokenData) ==
  IF tokenData.metadata = Undef THEN getTokenDecimals(transferAssetType(request))
  ELSE tokenData.metadata.decimals

\* C16: the transfer prepare step moves to confirming only when
\* amount * 10^decimals <= the balance read; a request whose scaled amount
\* exceeds the balance ends prepare in phase error with the insufficient
\* balance message.
TransferPreparedWithinBalance ==
  /\ (wf = "transfer" /\ transferState.phase = "confirming"
        /\ transferState.preparedTransaction.transferAmount.t = "number") =>
        transferState.preparedTransaction.transferAmount.tenths
          <= 10 * transferState.preparedTransaction.tokenData.amount
  /\ pc = "prepareTransfer" =>
        \A env \in TransferPrepareEnvs :
          ( /\ ReachesBalanceCheck(transferState.request, userId, env)
            /\ scaleAmount(transferState.request.amount,
                           transferDecimals(transferState.request, env.tokenData)).tenths
                 > 10 * env.tokenData.amount )
            => LET out == prepareTransferNode(transferState, userId, env)
               IN  /\ out.kind = "return"
                   /\ out.st.phase = "error"
                   /\ out.st.error = "Insufficient balance"

----------------------------------------------------------------------------
(* The balance re-validation of the execute step                           *)

NativeNames == {AptAlias, AptCoin}

\* the request names the native asset as its input
InputIsNative(request) ==
  request.faAddressIn \in NativeNames \/ request.tokenAddressIn \in NativeNames

freshBalance(env) == IF env.tokenData = Undef THEN 0 ELSE env.tokenData.amount

\* the fresh balance covers the swap amount and, for the native asset, the
\* gas reserve on top of it
Covered(state, env) ==
  LET swapAmount == state.preparedTransaction.swapAmount
      reserve == state.preparedTransaction.gasEstimation.maxGasCostInAPT
  IN  /\ swapAmount <= freshBalance(env)
      /\ InputIsNative(state.request) => swapAmount <= freshBalance(env) - reserve

\* C17: the execute step hands a transaction to the network only if the
\* fresh balance covers swapAmount and, for the native asset (alias or
\* canonical name), swapAmount <= balance - the gas reserve; otherwise it
\* ends in phase error and nothing is submitted.
SubmitsOnlyWhenCovered ==
  (wf = "swap" /\ pc = "executeSwap") =>
    \A env \in ExecEnvs :
      LET body == executeSwapBody(swapState, env)
          out == executeSwapNode(swapState, env)
      IN  /\ body.sent # <<>> => Covered(swapState, env)
          /\ (env.walletOk /\ ~Covered(swapState, env)) =>
                /\ body.sent = <<>>
                /\ out.kind = "return" /\ out.st.phase = "error"

\* the gas reserve stopped a swap of the native asset before submission
GasReserveStoppedSwap ==
  /\ wf = "swap" /\ pc = "END"
  /\ swapState.phase = "error"
  /\ swapState.error = "Insufficient balance for swap"
  /\ InputIsNative(swapState.request)
  /\ swapState.preparedTransaction.swapAmount > 0
  /\ submitted = <<>>

----------------------------------------------------------------------------
(* The minimum output of a candidate                                       *)

\* floor(estimatedOutput * (1 - slippage / 100)), slippage in tenths of a percent
ExactMinAmountOut(estimatedOutput, slippageTenths) ==
  (estimatedOutput * (1000 - slippageTenths)) \div 1000

\* C18: every candidate presented by the find-pool step carries
\* minAmountOut = floor(estimatedOutput * (1 - slippage/100)), the slippage
\* being 0.5 when the request has none.
MinAmountOutIsFloor ==
  (wf = "swap" /\ pc = "suspended") =>
    \A i \in 1..Len(pending.pools) :
      pending.pools[i].minAmountOut =
        ExactMinAmountOut(pending.pools[i].estimatedOutput, slippageValue(swapState.request))

----------------------------------------------------------------------------
(* The gas estimate                                                        *)

WithinGasCaps(gas) ==
  gas.totalGasCostInAPT <= GasCapTotal /\ gas.maxGasCostInAPT <= GasCapMax

\* C19: in every swap state that stores a gas estimate, the baseline one of
\* prepare or the re-estimate for the selected pool, totalGasCost <= 0.05
\* and maxGasCost <= 0.1 native units (5000000 and 10000000 octas),
\* whatever the simulator reported.
GasEstimateWithinCaps ==
  /\ (wf = "swap" /\ swapState.preparedTransaction # Undef) =>
        WithinGasCaps(swapState.preparedTransaction.gasEstimation)
  /\ \A poolSim \in Sims, netSim \in Sims :
        /\ WithinGasCaps(getNetworkGasEstimation(netSim))
        /\ WithinGasCaps(estimateSwapGas(poolSim, netSim))

\* the simulation of the selected pool's trade reported costs above both
\* caps and the stored re-estimate is the caps
ReestimateCapped ==
  /\ wf = "swap" /\ swapState.phase = "executing"
  /\ swapState.preparedTransaction.gasEstimation = Gas(GasCapTotal, GasCapMax)

----------------------------------------------------------------------------
(* The native asset's two names in pair matching                           *)

Addresses == {"", AptAlias, AptCoin, toLowerCase(AptCoin), "0xusdc", "0xdai"}

\* normalizing an address that is already normalized returns it unchanged
NormalizationIsIdempotent ==
  \A a \in Addresses :
    /\ normalizeFaAddress(normalizeFaAddress(a)) = normalizeFaAddress(a)
    /\ normalizeTokenAddress(normalizeTokenAddress(a)) = normalizeTokenAddress(a)

\* the request with every field that names the native asset rewritten to name
Naming(request, name) ==
  LET as(a) == IF a \in NativeNames THEN name ELSE a
  IN  [request EXCEPT !.faAddressIn = as(@), !.faAddressOut = as(@),
                      !.tokenAddressIn = as(@), !.tokenAddressOut = as(@)]

PoolForms ==
  { [id |-> 1, dex |-> d, token_a |-> a, token_b |-> b,
     estimatedOutput |-> 0, minAmountOut |-> 0] :
      d \in SupportedDexes, a \in NativeNames \cup {"0xusdc"}, b \in NativeNames \cup {"0xusdc", "0xdai"} }

\* a request matches the same pools whether it names the native asset 0xa
\* or 0x1::aptos_coin::AptosCoin
RequestNameIsIrrelevant ==
  \A request \in SwapRequests, pool \in PoolForms :
    strictMatch(pool, Naming(request, AptAlias)) = strictMatch(pool, Naming(request, AptCoin))

\* every pool an adapter builds for the request passes the strict filter
BuiltPoolsPassStrictFilter ==
  (wf = "swap" /\ pc = "findPool") =>
    \A dex \in SupportedDexes :
      LET pools == AdapterPools(dex, swapState.request)
      IN  \A i \in 1..Len(pools) : strictMatch(pools[i], swapState.request)

\* C20: native-alias normalization in pair matching is idempotent, a request
\* naming the native asset 0xa matches exactly the pools the same request
\* naming it 0x1::aptos_coin::AptosCoin matches, whichever form the pool
\* carries, and a pool an adapter built for the request's own pair passes
\* the strict filter.
NativeAliasNormalization ==
  /\ NormalizationIsIdempotent
  /\ RequestNameIsIrrelevant
  /\ BuiltPoolsPassStrictFilter

----------------------------------------------------------------------------
(* The message of an error state                                           *)

NonEmpty(text) == text \notin {NoStr, ""}

HasMessage(st) ==
  \/ NonEmpty(st.error)
  \/ st.result # Undef /\ (NonEmpty(st.result.error) \/ NonEmpty(st.result.message))

\* C21: every state of either workflow whose phase is error carries a
\* non-empty message, in error or in result.error / result.message.
ErrorCarriesMessage ==
  /\ (wf = "swap" /\ swapState.phase = "error") => HasMessage(swapState)
  /\ (wf = "transfer" /\ transferState.phase = "error") => HasMessage(transferState)

\* the transfer was declined: the message is in the result only
DeclinedTransferCarriesMessage ==
  /\ wf = "transfer" /\ transferState.phase = "error"
  /\ transferState.error = NoStr
  /\ transferState.result.error = "User cancelled the transfer"

----------------------------------------------------------------------------
(* The channels of a selection answer                                      *)

\* the structured answer cancels or carries an index
StructuredGiven(config) ==
  /\ config.interrupt_response # NoAnswer
  /\ \/ config.interrupt_response.cancelled
     \/ IsNumber(config.interrupt_response.selectedPoolIndex)

\* C22: the find-pool step takes the selection from the explicit resume
\* parameter, else from the structured answer, else from the messages, and
\* asks (suspends, or reads the resume value) only when none of them gave
\* one: a channel decides only if every channel before it gave nothing.
SelectionPriority ==
  (wf = "swap" /\ pc = "findPool") =>
    \A config \in SwapConfigs, messages \in MessageLogs, resume \in SwapResumes \cup {NoResume} :
      LET sel == resolveSelectionWith(config, messages, "", resume)
          explicit == config.selectedPoolIndex # Undefined
          structured == StructuredGiven(config)
          fromMessages == messageSelection(messages, "")
      IN  /\ explicit => sel = Validate(config.selectedPoolIndex)
          /\ (~explicit /\ structured) => sel = answerSelection(config.interrupt_response)
          /\ (~explicit /\ ~structured /\ fromMessages.do # "ask") => sel = fromMessages
          /\ sel.do = "ask" => (~explicit /\ ~structured /\ fromMessages.do = "ask")
          /\ resolveSelection(config, resume) = resolveSelectionWith(config, NoMessages, "", resume)

\* the resuming invocation carried the explicit index 0 and a resume value
\* that declines: the explicit index was taken
ExplicitIndexBeatsResumeValue ==
  /\ wf = "swap" /\ swapState.phase = "executing"
  /\ answer = "cancel"
  /\ picked.index = Num(0)

----------------------------------------------------------------------------
(* A failing adapter                                                       *)

\* the environment in which the failing adapters are not in the catalog
WithoutFailing(env) ==
  [env EXCEPT !.dexes = SelectSeq(env.dexes, LAMBDA d : d \notin env.failing),
              !.failing = {}]

\* C23: an adapter whose findPools throws contributes no pools, every other
\* adapter's pools are collected as if the failing adapter were not in the
\* catalog, and the candidates, hence the step's outcome, are the same as
\* without it: the failure alone does not end the step in error.
AdapterFailureIsIsolated ==
  (wf = "swap" /\ pc = "findPool") =>
    \A de \in DiscoveryEnvs :
      (de.dexesOk /\ de.failing # {}) =>
        LET request == swapState.request
            all == collectPools(de.dexes, 1, request, de)
        IN  /\ \A i \in 1..Len(all) : all[i].dex \notin de.failing
            /\ all = collectPools(WithoutFailing(de).dexes, 1, request, WithoutFailing(de))
            /\ \A d \in SupportedDexes \ de.failing :
                  (\E k \in 1..Len(de.dexes) : de.dexes[k] = d) =>
                    \A j \in 1..Len(AdapterPools(d, request)) :
                      \E i \in 1..Len(all) : all[i] = AdapterPools(d, request)[j]
            /\ discoverPools(swapState, de) = discoverPools(swapState, WithoutFailing(de))
            /\ discoverPools(swapState, de).ok

\* Hyperion failed and the PancakeSwap pool was presented for APT -> USDC
OtherAdapterPresented ==
  /\ wf = "swap" /\ pc = "suspended"
  /\ swapState.request.faAddressIn = AptAlias
  /\ swapState.request.faAddressOut = "0xusdc"
  /\ Len(pending.pools) > 0
  /\ \A i \in 1..Len(pending.pools) : pending.pools[i].dex # Hyperion

----------------------------------------------------------------------------
(* The partial match                                                       *)

\* C24: whenever at least one collected pool matches the requested pair
\* strictly, every candidate is a strict match: the partial match adds
\* pools only when the strict filter yields none.
PartialMatchIsLastResort ==
  (wf = "swap" /\ pc = "findPool") =>
    \A de \in DiscoveryEnvs :
      de.dexesOk =>
        LET request == swapState.request
            all == collectPools(de.dexes, 1, request, de)
            candidates == sortedPools(swapState, de)
            kept == filterPools(all, request)
        IN  /\ (\E i \in 1..Len(all) : strictMatch(all[i], request)) =>
                  /\ \A j \in 1..Len(candidates) : strictMatch(candidates[j], request)
                  /\ \A j \in 1..Len(kept) : strictMatch(kept[j], request)
            /\ (\A i \in 1..Len(all) : ~strictMatch(all[i], request)) =>
                  kept = SelectSeq(all, LAMBDA pool : partialMatch(pool, request))

\* Hyperion and PancakeSwap pools matched APT -> USDC strictly and were
\* presented; the pool Cellana built matched only partially and was not
StrictMatchesOnlyPresented ==
  /\ wf = "swap" /\ pc = "suspended"
  /\ \E i \in 1..Len(pending.pools) : pending.pools[i].dex = Hyperion
  /\ \E i \in 1..Len(pending.pools) : pending.pools[i].dex = PancakeSwap
  /\ \A i \in 1..Len(pending.pools) :
        strictMatch(pending.pools[i], swapState.request) /\ pending.pools[i].dex # Cellana

----------------------------------------------------------------------------
(* The selected pool and the list the user saw                             *)

\* the place in a list that an index value (in tenths) names
PlaceOf(index) == index.tenths \div 10 + 1

\* C25: the pool stored as selectedPool on a resume is the pool that stood
\* at the selected index in the candidate list of the suspension request
\* that was answered.
SelectedPoolIsThePresentedOne ==
  [][ (wf = "swap" /\ pc = "suspended" /\ swapState'.phase = "executing") =>
        /\ picked'.index.t = "number"
        /\ PlaceOf(picked'.index) \in 1..Len(pending.pools)
        /\ swapState'.selectedPool.id = pending.pools[PlaceOf(picked'.index)].id
        /\ swapState'.selectedPool.dex = pending.pools[PlaceOf(picked'.index)].dex ]_vars

----------------------------------------------------------------------------
(* A structured cancellation and the other resume channels                 *)

\* the configuration carries a structured answer with cancelled = true
StructuredCancel(config) ==
  \/ config.interrupt_response # NoAnswer /\ config.interrupt_response.cancelled
  \/ config.response # NoAnswer /\ config.response.cancelled

\* C26: a run of the find-pool step whose configuration carries a structured
\* answer with cancelled = true ends in phase error (so nothing is
\* submitted), whatever the explicit index and the resume value are.
StructuredCancelEndsSwap ==
  (wf = "swap" /\ pc \in {"findPool", "suspended"}) =>
    \A config \in {c \in SwapConfigs : StructuredCancel(c)} :
    \A de \in DiscoveryEnvs :
    \A resume \in {NoResume, Response("accept", ObjectArgs(Num(0)))} :
      LET out == findPoolNode(swapState, config, FindPoolEnv(de, QuietSelection), resume)
      IN  out.kind = "return" /\ out.st.phase = "error"

----------------------------------------------------------------------------
(* A failed gas simulation                                                 *)

\* C27: in a run of the find-pool step that selects a pool, a failure of the
\* simulation of the selected pool's trade does not end the swap: the step
\* moves to executing with the baseline network estimate, and with the
\* defaults 0.005 / 0.01 native units (500000 / 1000000 octas) when the
\* baseline simulation fails too.
GasSimulationFailureIsAbsorbed ==
  (wf = "swap" /\ pc \in {"findPool", "suspended"}) =>
    \A de \in DiscoveryEnvs :
    \A choice \in {<<NoResume, Config(1, Num(0), NoAnswer, NoAnswer)>>,
                   <<Response("accept", ObjectArgs(Num(0))), EmptyConfig>>} :
      LET found == discoverPools(swapState, de)
          run(se) == findPoolFrom(swapState, choice[2], found, FindPoolEnv(de, se), choice[1])
          selects == LET sim == run([walletOk |-> TRUE, poolSim |-> SmallSim, netSim |-> SmallSim])
                     IN  sim.kind = "return" /\ sim.st.phase = "executing"
      IN  selects =>
            \A netSim \in Sims :
              LET out == run([walletOk |-> TRUE, poolSim |-> FailedSim, netSim |-> netSim])
              IN  /\ out.kind = "return"
                  /\ out.st.phase = "executing"
                  /\ out.st.preparedTransaction.gasEstimation = getNetworkGasEstimation(netSim)
                  /\ ~netSim.ok =>
                       out.st.preparedTransaction.gasEstimation = Gas(GasDefaultTotal, GasDefaultMax)

\* both simulations failed, a pool was selected and the swap goes on to
\* execute with the default estimate
DefaultsAfterFailedSimulations ==
  /\ wf = "swap" /\ pc = "executeSwap" /\ swapState.phase = "executing"
  /\ swapState.selectedPool # Undef
  /\ swapState.preparedTransaction.gasEstimation = Gas(GasDefaultTotal, GasDefaultMax)

----------------------------------------------------------------------------
(* The gas estimate of a prepared transfer                                 *)

\* C28: every gas estimate the transfer prepare step stores has
\* totalGasCost <= 0.05 and maxGasCost <= 0.1 native units (5000000 and
\* 10000000 octas), and a prepare run that gets as far as the gas simulation
\* moves to confirming with the default estimate when the simulation fails.
TransferGasEstimateWithinCaps ==
  /\ (wf = "transfer" /\ transferState # Undef /\ transferState.preparedTransaction # Undef) =>
        WithinGasCaps(transferState.preparedTransaction.gasEstimation)
  /\ (wf = "transfer" /\ pc = "prepareTransfer") =>
        \A env \in TransferPrepareEnvs :
          LET simulated == prepareTransferNode(transferState, userId, [env EXCEPT !.sim = SmallSim])
              out == prepareTransferNode(transferState, userId, [env EXCEPT !.sim = FailedSim])
          IN  (env.buildOk /\ simulated.kind = "return" /\ simulated.st.phase = "confirming") =>
                /\ out.kind = "return"
                /\ out.st.phase = "confirming"
                /\ out.st.preparedTransaction.gasEstimation = Gas(GasDefaultTotal, GasDefaultMax)

----------------------------------------------------------------------------
(* The transfer that is submitted and the transfer that was confirmed      *)

\* C29: the suspension request of the confirm step shows the request and the
\* asset of the prepared state; resuming changes neither the request nor
\* the prepared transaction; and the transaction the execute step hands to
\* submission carries the recipient of that request, the asset and the
\* amount that prepare stored, the amount being the requested amount
\* scaled by the stored decimals.
TransferSubmitsWhatWasConfirmed ==
  [][ wf = "transfer" =>
        /\ pc = "suspended" =>
             /\ pending.request = transferState.request
             /\ pending.tokenInfo.type = transferState.preparedTransaction.assetType
             /\ transferState'.request = transferState.request
             /\ transferState'.preparedTransaction = transferState.preparedTransaction
        /\ (pc = "executeTransfer" /\ submitted' # submitted) =>
             LET tx == submitted'[Len(submitted')]
                 prepared == transferState.preparedTransaction
             IN  /\ Len(submitted') = Len(submitted) + 1
                 /\ tx.recipient = transferState.request.toAddress
                 /\ tx.assetType = prepared.assetType
                 /\ tx.amount = prepared.transferAmount
                 /\ tx.amount = scaleAmount(parseFloat(transferState.request.amount),
                                            prepared.decimals) ]_vars

\* half a native coin, eight decimals: the submitted transfer carries
\* 50000000 base units (in tenths, 500000000) for the confirmed recipient
ConfirmedTransferSubmitted ==
  /\ wf = "transfer" /\ transferState.phase = "completed" /\ answer = "accept"
  /\ Len(submitted) = 1
  /\ transferState.request.amount = Half
  /\ submitted[1].recipient = "0xbob"
  /\ submitted[1].assetType = AptCoin
  /\ submitted[1].amount = [t |-> "number", tenths |-> 5 * Pow10(DefaultDecimals)]

----------------------------------------------------------------------------
(* The minimum output of the submitted swap                                *)

\* C30: the minimum output in the transaction the swap execute step hands
\* to submission is the minAmountOut of the selected pool as it was stored
\* when the pool was selected.
SubmittedMinimumIsTheSelectedOne ==
  [][ (wf = "swap" /\ pc = "executeSwap" /\ submitted' # submitted) =>
        submitted'[Len(submitted')].minAmountOut = swapState.selectedPool.minAmountOut ]_vars

----------------------------------------------------------------------------
(* The age of what the pair cache returns                                  *)

\* the key of the pair whose reserves a caller of estimateAmountOut is at
legKey(call) ==
  getPairCacheKey(call.pool.routePath[call.leg], call.pool.routePath[call.leg + 1])

\* C31: in every state the concurrent callers can bring the cache to, at
\* every time, a read of any key, with or without the sweep, returns data
\* only from an entry younger than 30 minutes (3 ticks), and returns that
\* entry's data; an entry of 30 minutes or more reads as a miss.
ReadsReturnOnlyFreshEntries ==
  \A key \in DOMAIN pairCache, sweep \in BOOLEAN :
    LET read == getCachedPairData(pairCache, key, now, sweep)
        age == now - pairCache[key].timestamp
    IN  /\ read.data # Null => (age < PAIR_CACHE_DURATION /\ read.data = pairCache[key].data)
        /\ age >= PAIR_CACHE_DURATION => read.data = Null

\* an entry of 30 minutes or more is still in the cache, no sweep having
\* removed it, and a caller that read its key was answered with a miss and
\* is fetching the reserves again
ExpiredEntryReadAsMiss ==
  \E w \in Workers :
    /\ calls[w].op = "estimate" /\ calls[w].fetching
    /\ legKey(calls[w]) \in DOMAIN pairCache
    /\ now - pairCache[legKey(calls[w])].timestamp >= PAIR_CACHE_DURATION

----------------------------------------------------------------------------
(* The direction of the reserves                                           *)

\* C32: the reserves behind every quote of a direct route X -> Y are the
\* pool's reserve of X as reserve_in and its reserve of Y as reserve_out:
\* a quote that estimateAmountOut computed (not the fallback) is
\* getAmountOut of the amount and these two reserves, whatever calls came
\* before it.
ReservesFollowTheRequestedDirection ==
  (finished.op = "estimate" /\ finished.pool.routeType = "direct" /\ ~finished.caught) =>
    finished.estimatedOutput =
      getAmountOut(finished.amountIn,
                   ChainReserve(chain, finished.pool.routePath[1]),
                   ChainReserve(chain, finished.pool.routePath[2])).val

\* C33: every Hyperion pool presented for selection was quoted in the
\* direction of the request: the token handed to the quote as the input
\* token is the input token of the request, also when that token is the
\* second token of the pool
HyperionQuotesTheRequestedDirection ==
  (wf = "swap" /\ pc = "suspended" /\ swapState.phase = "findPool") =>
    \A i \in 1..Len(pending.pools) :
      pending.pools[i].dex = Hyperion =>
        hyperionTokenIn(pending.pools[i]) =
          OrElse(swapState.request.faAddressIn, swapState.request.tokenAddressIn)

\* the intermediates of a finished route search, in list order, and those
\* of them whose pair exists on chain on both legs
searchedIntermediates == potentialIntermediates(finished.tokenIn, finished.tokenOut)

servingPlaces ==
  { k \in 1..Len(searchedIntermediates) :
      /\ PairOf(finished.tokenIn, searchedIntermediates[k]) \in chain.pairs
      /\ PairOf(searchedIntermediates[k], finished.tokenOut) \in chain.pairs }

firstServingPlace == CHOOSE k \in servingPlaces : \A j \in servingPlaces : k <= j

\* the route of a finished search is the one the pairs on chain call for,
\* and the search asked about no pair beyond the ones that decided it
RouteFollowsTheChain ==
  IF PairOf(finished.tokenIn, finished.tokenOut) \in chain.pairs
    THEN /\ finished.route = Route("direct", <<finished.tokenIn, finished.tokenOut>>)
         /\ Len(finished.answers) = 1
    ELSE IF servingPlaces # {}
      THEN /\ finished.route =
                Route("doublehop", <<finished.tokenIn, searchedIntermediates[firstServingPlace],
                                     finished.tokenOut>>)
           /\ Len(finished.answers) = 1 + 2 * firstServingPlace
           /\ \A k \in 1..firstServingPlace :
                 /\ finished.answers[2 * k][2] = searchedIntermediates[k]
                 /\ finished.answers[2 * k + 1][1] = searchedIntermediates[k]
      ELSE /\ finished.route = NoRoute
           /\ Len(finished.answers) = 1 + 2 * Len(searchedIntermediates)

EstimateFailed ==
  LET path == finished.pool.routePath
  IN  \/ finished.amountIn <= 0
      \/ finished.pool.routeType \notin {"direct", "doublehop"}
      \/ \E k \in 1..(Len(path) - 1) :
            \/ PairOf(path[k], path[k + 1]) \notin chain.pairs
            \/ ChainReserve(chain, path[k]) = 0
            \/ ChainReserve(chain, path[k + 1]) = 0

\* C35: estimateAmountOut of the PancakeSwap adapter always returns: when
\* it caught a failure (a reserve read that failed, an empty reserve, an
\* amount that is not positive) or met an unknown route type, the estimated
\* output is floor(amountIn * 0.9), a function of amountIn alone
FailedEstimateReturnsTheFallback ==
  finished.op = "estimate" =>
    /\ finished.estimatedOutput \in Nat
    /\ (finished.caught \/ EstimateFailed) =>
          finished.estimatedOutput = MathFloor(finished.amountIn * 9, 10)

\* an estimate of 10 over a pair with an empty reserve came back as 9
EmptyReserveAnsweredWithFallback ==
  /\ finished.op = "estimate" /\ finished.caught
  /\ finished.pool.routeType = "direct" /\ finished.amountIn = 10
  /\ PairOf(finished.pool.routePath[1], finished.pool.routePath[2]) \in chain.pairs
  /\ chain.drained # {}
  /\ finished.estimatedOutput = 9

\* C36: whichever adapter the selected pool belongs to, its
\* createSwapTransaction builds no transaction for a slippage below 0.1
\* (here 0) or above 50 (here 60)
EveryAdapterRejectsSlippageOutOfRange ==
  (wf = "swap" /\ swapState.phase = "executing" /\ swapState.selectedPool # Undef) =>
    \A slippageTenths \in {0, 600}, market \in ExecMarkets :
      ~createSwapTransaction(swapState.selectedPool, swapState.preparedTransaction.swapAmount,
                             slippageTenths, market).ok

\* C37: no step of the swap workflow changes the request of the swap
\* state, so that in every state reached, error states included, the
\* request is the one the workflow was started with
RequestNeverChanges ==
  [][wf = "swap" => swapState'.request = swapState.request]_vars

\* C38: the balance the prepare step read is that of the fungible-asset
\* address of the input token when the request gives one, of the coin-type
\* address otherwise, the native alias 0xa replaced by the coin type of APT
BalanceReadAtFungibleAssetAddress ==
  (wf = "swap" /\ swapState.phase = "findPool" /\ swapState.preparedTransaction # Undef) =>
    swapState.preparedTransaction.tokenData.asset_type =
      canonicalToken(OrElse(swapState.request.faAddressIn, swapState.request.tokenAddressIn))

\* C39: a swap state in phase executing or completed has its request, its
\* prepared transaction and its selected pool set, stores between one and
\* five candidate pools, and its selected pool is one of them
ExecutingStateIsComplete ==
  (wf = "swap" /\ swapState.phase \in {"executing", "completed"}) =>
    /\ swapState.request # Undef
    /\ swapState.preparedTransaction # Undef
    /\ swapState.selectedPool # Undef
    /\ Len(swapState.pools) \in 1..TopN
    /\ swapState.selectedPool \in PoolSet(swapState.pools)

\* a swap completed with the last of five stored candidates
CompletedWithFifthCandidate ==
  /\ wf = "swap" /\ swapState.phase = "completed"
  /\ Len(swapState.pools) = TopN
  /\ swapState.selectedPool = swapState.pools[TopN]

SwapSettled ==
  pc = "suspended" \/ (swapState # Undef /\ swapState.phase \in {"completed", "error"})

\* C40: every run of the swap workflow comes to a suspension at the pool
\* selection or to phase completed or error, and once the phase is
\* completed or error no step of the workflow is taken; no step leaves the
\* workflow at the node that took it
SwapRunsSettleAndStop ==
  /\ (wf = "swap") ~> SwapSettled
  /\ [][~(wf = "swap" /\ swapState.phase \in {"completed", "error"})]_vars
  /\ [][wf = "swap" => pc' # pc]_vars

\* a completed swap whose routing named the model step, which the swap
\* graph does not have
CompletedSwapRoutedOut ==
  wf = "swap" /\ swapState.phase = "completed" /\ pc = "callModel"
====
